---- MODULE Spec2Model ----
(***************************************************************************)
(* A model of the ingestion layer of the Agent Context Display extension:  *)
(*   - FilePoller            (src/src/poller/filePoller.ts)                *)
(*   - JsonlParser           (src/unnamed/part_004, jsonlParser.ts)        *)
(*   - agent model           (src/unnamed/part_004, agentModel.ts)         *)
(*   - StateStore            (src/unnamed/part_001, stateStore.ts)         *)
(*   - CopilotSessionReader  (src/unnamed/part_005)                        *)
(* Each component has its own specification over the shared variables;     *)
(* the variables of the other components stay at their initial values.     *)
(***************************************************************************)
EXTENDS Integers, Sequences, FiniteSets, Bags, TLC

VARIABLES
  \* ---- file system seen by FilePoller
  fs,               \* path -> [exists, gen, len]
  \* ---- FilePoller fields
  filePath,         \* this.options.filePath
  fileOffset,       \* this.fileOffset
  busy,             \* this.busy
  consecutiveSkips, \* this.consecutiveSkips
  disposed,         \* this.disposed
  timer,            \* this.timer is set
  debounceTimer,    \* a debounce timeout is pending
  watcher,          \* this.watcher is set
  passes,           \* bag of the poll() invocations suspended at an await
  \* ---- observations of the FilePoller callbacks (history)
  scen,             \* bookkeeping of one truncate-and-rewrite episode
  lastEnd,          \* how the pass that ended last came to its end
  handed,           \* the bytes handed to onData, where they are observed
  \* ---- extension
  dataSource,       \* currentSettings.dataSource: which reader is running
  \* ---- session file seen by CopilotSessionReader
  rdFile,           \* [exists, bytes, mtime]
  rdWrites,         \* number of records the chat tool has written so far
  \* ---- CopilotSessionReader fields (one session file)
  rdState,          \* this.fileStates.get(fileName): <<>> or <<FileState>>
  rdSessions,       \* this.sessions.get(fileName): <<>> or <<session>>
  \* ---- observations of CopilotSessionReader (history)
  rdBtr,            \* size of the buffer the last readFile allocated
  rdObs,            \* the record processed last and what it met
  \* ---- JsonlParser fields
  pendingPartialLine, \* this.pendingPartialLine
  seenKeys,         \* this.seenKeys, in insertion order
  latestTsPerSession, \* this.latestTsPerSession: set of <<sessionId, ts>>
  sessions,         \* this.sessions, in insertion order
  malformedLineCount, \* this.malformedLineCount
  \* ---- observations of JsonlParser (history)
  processed,        \* <<sessionId, ts>> of the records met since the last reset
  lastAccepted,     \* per sessionId, the entry accepted last since the last reset
  maxAccepted,      \* per sessionId, the greatest timestamp accepted since then
  lineObs,          \* the line parsed last and what it met
  \* ---- StateStore fields
  currentState,     \* this.currentState: <<>> or <<session>>
  lastStateHash,    \* this.lastStateHash
  \* ---- observations of StateStore (history)
  storeObs,         \* the last setState call and what it did
  \* ---- the log file delivered chunk by chunk
  logBytes,         \* the bytes of the log file
  delivered,        \* number of bytes handed to onData so far
  pieces,           \* number of chunks they were handed in
  linesFed,         \* number of lines the writer has appended one by one
  \* ---- the chat-sessions directory and the reader's maps over its files
  dir,              \* the directory reader and its directory, see InitDir
  \* ---- observations of the agent model (history)
  agentObs,         \* the raw agents handed to createSession and what it built
  \* ---- the extension's notifications
  criticalNotifiedAgents, \* the set criticalNotifiedAgents
  \* ---- observations of the notifications (history)
  notifyObs         \* what the emitted sessions showed and what was sent

pollerVars == <<fs, filePath, fileOffset, busy, consecutiveSkips, disposed,
                timer, debounceTimer, watcher, passes, scen, lastEnd,
               handed>>

readerVars == <<rdFile, rdWrites, rdState, rdSessions, rdBtr, rdObs>>

parserVars == <<pendingPartialLine, seenKeys, latestTsPerSession, sessions,
                malformedLineCount, processed, lastAccepted, maxAccepted,
                lineObs>>

storeVars == <<currentState, lastStateHash, storeObs>>

chunkVars == <<logBytes, delivered, pieces, linesFed>>

notifyVars == <<criticalNotifiedAgents, notifyObs>>

vars == <<pollerVars, dataSource, readerVars, parserVars, storeVars, chunkVars,
          dir, agentObs, notifyVars>>

otherThanPoller == <<dataSource, readerVars, parserVars, storeVars, chunkVars,
                     dir, agentObs, notifyVars>>

otherThanReader == <<dataSource, pollerVars, parserVars, storeVars, chunkVars,
                     dir, agentObs, notifyVars>>

otherThanPipeline == <<dataSource, pollerVars, readerVars, dir, agentObs,
                       notifyVars>>

otherThanDir == <<dataSource, pollerVars, readerVars, parserVars, storeVars,
                  chunkVars, agentObs, notifyVars>>

otherThanAgents == <<dataSource, pollerVars, readerVars, parserVars, storeVars,
                     chunkVars, dir, notifyVars>>

otherThanNotify == <<dataSource, pollerVars, readerVars, chunkVars, dir,
                     agentObs>>

(***************************************************************************)
(* Bounds of the model.                                                    *)
(***************************************************************************)
\* Longest file the writer produces, in bytes.
MaxFileLen == 2
\* Number of times the writer may replace the content of the file.
MaxGen == 2
\* Number of poll() invocations that may be suspended at the same time.
MaxPasses == 2
\* Number of records the chat tool writes to the session file.
MaxWrites == 3
\* Cap on the consecutive-skip counter.
MaxSkips == 3
\* MAX_CHUNK_BYTES of filePoller.ts:7, scaled down so that a file can grow
\* past it between two polls.
MAX_CHUNK_BYTES == 1
\* MAX_CHUNK_BYTES of part_005:7 (10 MB there), scaled down likewise; a
\* chunk of this size can hold the end of one line and a whole second line.
READER_MAX_CHUNK_BYTES == 3

Min(a, b) == IF a <= b THEN a ELSE b
Max(a, b) == IF a >= b THEN a ELSE b

(***************************************************************************)
(* The file system.  A file is identified by its path; its content is      *)
(* determined by its generation (bumped whenever the writer truncates or   *)
(* re-creates it) and its length: byte i of generation g of path p is the  *)
(* triple <<p, g, i>>, so bytes of different generations never look alike. *)
(***************************************************************************)
LogPath == "p1"
OtherPath == "p2"
Paths == {LogPath, OtherPath}
NoPath == ""

NUL == <<NoPath, 0, 0>>

FileByte(p, i) == <<p, fs[p].gen, i>>

Content(p) == [i \in 1..fs[p].len |-> FileByte(p, i)]

InitFs ==
  [p \in Paths |->
     IF p = LogPath THEN [exists |-> TRUE, gen |-> 1, len |-> 0]
                    ELSE [exists |-> TRUE, gen |-> 1, len |-> 2]]

(***************************************************************************)
(* FilePoller.                                                             *)
(***************************************************************************)
\* A suspended pass: where it is suspended (pc), the path its pending call was
\* given, the size of the buffer it allocated (btr) and the position its read
\* was given (pos).
NewPass(pth) == [pc |-> "stat", path |-> pth, btr |-> 0, pos |-> 0]

InFlight == BagToSet(passes)

Without(ps, p) == ps (-) SetToBag({p})

With(ps, p) == ps (+) SetToBag({p})

\* filePoller.ts:151-152: const bytesToRead = Math.min(available, MAX_CHUNK_BYTES)
BytesToRead(available) == Min(available, MAX_CHUNK_BYTES)

\* The episode tracker: "off" until the writer truncates and rewrites the file
\* right after the poller has consumed all of it, "armed" from then on, and
\* "off" again once anything else interferes with the episode.
ScenOff == [st |-> "off", n |-> 0, delivered |-> <<>>, resets |-> 0,
            early |-> FALSE, quiet |-> FALSE]

ScenInterfere == ScenOff

\* onResetCallback observed
ScenOnReset(sc) ==
  IF sc.st = "armed" THEN [sc EXCEPT !.resets = Min(@ + 1, 2)] ELSE sc

\* onDataCallback observed
ScenOnData(sc, chunk) ==
  IF sc.st = "armed"
  THEN [sc EXCEPT !.delivered = @ \o chunk,
                  !.early = @ \/ (sc.resets = 0)]
  ELSE sc

\* a pass ended with "no change" (stat.size === fileOffset)
ScenOnNoChange(sc) ==
  IF sc.st = "armed" THEN [sc EXCEPT !.quiet = TRUE] ELSE sc

\* filePoller.ts:117-129, the synchronous head of poll(): the values of
\* busy, consecutiveSkips and passes after a call made with the values given.
PollCall(dis, pth, b, sk, ps) ==
  IF dis \/ pth = NoPath
  THEN [busy |-> b, skips |-> sk, passes |-> ps, warned |-> FALSE]
  ELSE IF b
  THEN [busy |-> b, skips |-> sk + 1, passes |-> ps, warned |-> sk + 1 >= 3]
  ELSE [busy |-> TRUE, skips |-> 0, passes |-> With(ps, NewPass(pth)),
        warned |-> FALSE]

\* The model's bounds allow the call: a free slot for a pass that starts, room
\* in the skip counter for a pass that is skipped.
PollCallInBounds(dis, pth, b, sk, ps) ==
  \/ dis \/ pth = NoPath
  \/ b /\ sk < MaxSkips
  \/ ~b /\ BagCardinality(ps) < MaxPasses

\* The observer of the data callback: off, or on with the bytes of the
\* chunks handed to onDataCallback so far, in the order of the calls.
Unobserved == [on |-> FALSE, bytes |-> <<>>]

Observed == [on |-> TRUE, bytes |-> <<>>]

\* filePoller.ts:167: this.onDataCallback?.(chunk)
HandOver(h, chunk) == IF h.on THEN [h EXCEPT !.bytes = @ \o chunk] ELSE h

InitPollerFields ==
  /\ fs = InitFs
  /\ filePath \in {LogPath, NoPath}
  /\ fileOffset = 0
  /\ busy = FALSE
  /\ consecutiveSkips = 0
  /\ disposed = FALSE
  /\ timer = FALSE
  /\ debounceTimer = FALSE
  /\ watcher = FALSE
  /\ passes = EmptyBag
  /\ scen = ScenOff
  /\ lastEnd = "ok"

InitPollerVars == InitPollerFields /\ handed = Unobserved

\* filePoller.ts:47-69
Start ==
  /\ ~disposed
  /\ IF filePath = NoPath
     THEN UNCHANGED <<watcher, timer, busy, consecutiveSkips, passes>>
     ELSE /\ PollCallInBounds(disposed, filePath, busy, consecutiveSkips, passes)
          /\ LET r == PollCall(disposed, filePath, busy, consecutiveSkips, passes)
             IN /\ watcher' = TRUE
                /\ timer' = TRUE
                /\ busy' = r.busy
                /\ consecutiveSkips' = r.skips
                /\ passes' = r.passes
  /\ UNCHANGED <<fs, filePath, fileOffset, disposed, debounceTimer, scen>>
  /\ UNCHANGED <<lastEnd, handed, otherThanPoller>>

\* filePoller.ts:71-86.  The extension drops its reference to a poller when it
\* disposes it (stopAllReaders), so no control call follows dispose().
Stop ==
  /\ ~disposed
  /\ timer' = FALSE
  /\ debounceTimer' = FALSE
  /\ watcher' = FALSE
  /\ busy' = FALSE
  /\ consecutiveSkips' = 0
  /\ scen' = ScenInterfere
  /\ UNCHANGED <<fs, filePath, fileOffset, disposed, passes>>
  /\ UNCHANGED <<lastEnd, handed, otherThanPoller>>

\* filePoller.ts:104-108
Dispose ==
  /\ ~disposed
  /\ disposed' = TRUE
  /\ timer' = FALSE
  /\ debounceTimer' = FALSE
  /\ watcher' = FALSE
  /\ busy' = FALSE
  /\ consecutiveSkips' = 0
  /\ scen' = ScenInterfere
  /\ UNCHANGED <<fs, filePath, fileOffset, passes>>
  /\ UNCHANGED <<lastEnd, handed, otherThanPoller>>

\* filePoller.ts:88-102.  hasPath: options.filePath is given (newPath);
\* hasInterval: options.pollIntervalMs is given.
Reconfigure(hasPath, newPath, hasInterval) ==
  LET needsRestart == hasPath /\ newPath # filePath
      path1 == IF hasPath THEN newPath ELSE filePath
  IN /\ ~disposed
     /\ filePath' = path1
     /\ IF needsRestart
        THEN \* stop(); this.fileOffset = 0; start()
             /\ fileOffset' = 0
             /\ debounceTimer' = FALSE
             /\ scen' = ScenInterfere
             /\ IF disposed \/ path1 = NoPath
                THEN /\ timer' = FALSE
                     /\ watcher' = FALSE
                     /\ busy' = FALSE
                     /\ consecutiveSkips' = 0
                     /\ UNCHANGED passes
                ELSE /\ PollCallInBounds(disposed, path1, FALSE, 0, passes)
                     /\ LET r == PollCall(disposed, path1, FALSE, 0, passes)
                        IN /\ timer' = TRUE
                           /\ watcher' = TRUE
                           /\ busy' = r.busy
                           /\ consecutiveSkips' = r.skips
                           /\ passes' = r.passes
        ELSE /\ timer' = (IF hasInterval THEN TRUE ELSE timer)
             /\ UNCHANGED <<fileOffset, debounceTimer, watcher, busy,
                            consecutiveSkips, passes, scen>>
     /\ UNCHANGED <<fs, disposed>>
     /\ UNCHANGED <<lastEnd, handed, otherThanPoller>>

\* filePoller.ts:66, the interval callback: void this.poll()
TimerTick ==
  /\ timer
  /\ PollCallInBounds(disposed, filePath, busy, consecutiveSkips, passes)
  /\ LET r == PollCall(disposed, filePath, busy, consecutiveSkips, passes)
     IN /\ busy' = r.busy
        /\ consecutiveSkips' = r.skips
        /\ passes' = r.passes
  /\ UNCHANGED <<fs, filePath, fileOffset, disposed, timer, debounceTimer,
                 watcher, scen>>
  /\ UNCHANGED <<lastEnd, handed, otherThanPoller>>

\* filePoller.ts:61 and 110-115: watcher.onDidChange -> debouncedPoll()
WatcherChange ==
  /\ watcher
  /\ debounceTimer' = TRUE
  /\ UNCHANGED <<fs, filePath, fileOffset, busy, consecutiveSkips, disposed,
                 timer, watcher, passes, scen>>
  /\ UNCHANGED <<lastEnd, handed, otherThanPoller>>

\* filePoller.ts:114, the debounce timeout fires: void this.poll()
DebounceFire ==
  /\ debounceTimer
  /\ PollCallInBounds(disposed, filePath, busy, consecutiveSkips, passes)
  /\ LET r == PollCall(disposed, filePath, busy, consecutiveSkips, passes)
     IN /\ busy' = r.busy
        /\ consecutiveSkips' = r.skips
        /\ passes' = r.passes
  /\ debounceTimer' = FALSE
  /\ UNCHANGED <<fs, filePath, fileOffset, disposed, timer, watcher, scen>>
  /\ UNCHANGED <<lastEnd, handed, otherThanPoller>>

\* filePoller.ts:141: if (stat.size < this.fileOffset)
IsTruncatedNever(size, off) == FALSE

IsTruncated(size, off) == size < off

\* filePoller.ts:131-157: stat resolves (or rejects) and poll() runs on to
\* its next await, the open() of the path configured at that moment.
StatResume(p) ==
  LET f == fs[p.path]
      truncated == IsTruncated(f.len, fileOffset)
      off1 == IF truncated THEN 0 ELSE fileOffset
      sc1 == IF truncated THEN ScenOnReset(scen) ELSE scen
      available == f.len - off1
  IN /\ p.pc = "stat"
     /\ IF ~f.exists
        THEN \* onFileNotFound; finally { busy = false }
             /\ passes' = Without(passes, p)
             /\ busy' = FALSE
             /\ lastEnd' = "missing"
             /\ UNCHANGED <<fileOffset, scen>>
        ELSE /\ fileOffset' = off1
             /\ IF f.len = off1
                THEN /\ passes' = Without(passes, p)
                     /\ busy' = FALSE
                     /\ scen' = ScenOnNoChange(sc1)
                     /\ lastEnd' = "ok"
                ELSE /\ passes' = With(Without(passes, p),
                          [pc |-> "open", path |-> filePath,
                           btr |-> BytesToRead(available), pos |-> 0])
                     /\ scen' = sc1
                     /\ UNCHANGED <<busy, lastEnd>>
     /\ UNCHANGED <<fs, filePath, consecutiveSkips, disposed, timer,
                    debounceTimer, watcher, handed>>
     /\ UNCHANGED otherThanPoller

\* filePoller.ts:157-159: open resolves (or rejects) and fh.read is called
\* with the offset the poller holds at that moment.
OpenResume(p) ==
     /\ p.pc = "open"
     /\ IF p.path = NoPath \/ ~fs[p.path].exists
        THEN \* catch (err) { logger.error }; finally { busy = false }
             /\ passes' = Without(passes, p)
             /\ busy' = FALSE
             /\ lastEnd' = "error"
        ELSE /\ passes' = With(Without(passes, p),
                              [p EXCEPT !.pc = "read", !.pos = fileOffset])
             /\ UNCHANGED <<busy, lastEnd>>
     /\ UNCHANGED <<fs, filePath, fileOffset, consecutiveSkips, disposed, timer,
                    debounceTimer, watcher, scen, handed>>
     /\ UNCHANGED otherThanPoller

\* What fh.read leaves in the zero-filled buffer of n bytes when it reads
\* path p from position pos: the bytes the file holds there, then NULs.
ReadBuffer(p, pos, n) ==
  LET got == Min(n, Max(0, fs[p].len - pos))
  IN [i \in 1..n |-> IF i <= got THEN FileByte(p, pos + i) ELSE NUL]

\* filePoller.ts:159-172: the read and the close resolve; the offset is
\* advanced, the chunk is handed to onData, busy is released.
ReadFinish(p) ==
  LET chunk == ReadBuffer(p.path, p.pos, p.btr)
  IN /\ p.pc = "read"
     /\ fileOffset' = fileOffset + p.btr
     /\ scen' = ScenOnData(scen, chunk)
     /\ handed' = HandOver(handed, chunk)
     /\ passes' = Without(passes, p)
     /\ busy' = FALSE
     /\ lastEnd' = "ok"
     /\ UNCHANGED <<fs, filePath, consecutiveSkips, disposed, timer,
                    debounceTimer, watcher>>
     /\ UNCHANGED otherThanPoller

\* filePoller.ts:164: the statement that advances the offset, run to the end
\* although the read was rejected.
OffsetAdvancedAnyway(off, btr) == off + btr

\* filePoller.ts:159-164: this.fileOffset += bytesToRead comes after the
\* awaits of the read and the close, so a rejection of either skips it.
OffsetAfterRejection(off, btr) == off

\* filePoller.ts:159-172: the read (or the close) is rejected; the catch
\* block logs the error and the finally block releases busy.
ReadFail(p) ==
     /\ p.pc = "read"
     /\ fileOffset' = OffsetAfterRejection(fileOffset, p.btr)
     /\ passes' = Without(passes, p)
     /\ busy' = FALSE
     /\ lastEnd' = "error"
     /\ UNCHANGED <<fs, filePath, consecutiveSkips, disposed, timer,
                    debounceTimer, watcher, scen, handed>>
     /\ UNCHANGED otherThanPoller

(***************************************************************************)
(* The writer of the log file (another process).                           *)
(***************************************************************************)
HandleOpen(pth) == \E p \in InFlight : p.pc = "read" /\ p.path = pth

WriterAppend ==
  /\ fs[LogPath].exists
  /\ fs[LogPath].len < MaxFileLen
  /\ fs' = [fs EXCEPT ![LogPath].len = @ + 1]
  /\ scen' = ScenInterfere
  /\ UNCHANGED <<filePath, fileOffset, busy, consecutiveSkips, disposed, timer,
                 debounceTimer, watcher, passes>>
  /\ UNCHANGED <<lastEnd, handed, otherThanPoller>>

\* The file is truncated to 0 and m new bytes are written to it.
WriterTruncateWrite(m) ==
  /\ fs[LogPath].exists
  /\ fs[LogPath].gen < MaxGen
  /\ fs' = [fs EXCEPT ![LogPath].gen = @ + 1, ![LogPath].len = m]
  /\ scen' =
       IF /\ scen.st = "off"
          /\ InFlight = {}
          /\ ~busy /\ ~disposed
          /\ filePath = LogPath
          /\ fs[LogPath].len > 0
          /\ fileOffset = fs[LogPath].len
          /\ m > 0
       THEN [ScenOff EXCEPT !.st = "armed", !.n = fs[LogPath].len]
       ELSE ScenInterfere
  /\ UNCHANGED <<filePath, fileOffset, busy, consecutiveSkips, disposed, timer,
                 debounceTimer, watcher, passes>>
  /\ UNCHANGED <<lastEnd, handed, otherThanPoller>>

WriterDelete ==
  /\ fs[LogPath].exists
  /\ fs' = [fs EXCEPT ![LogPath].exists = FALSE]
  /\ scen' = ScenInterfere
  /\ UNCHANGED <<filePath, fileOffset, busy, consecutiveSkips, disposed, timer,
                 debounceTimer, watcher, passes>>
  /\ UNCHANGED <<lastEnd, handed, otherThanPoller>>

\* A deleted file keeps its content for the handles still open on it, so it
\* is re-created only once no pass holds one.
WriterCreate ==
  /\ ~fs[LogPath].exists
  /\ fs[LogPath].gen < MaxGen
  /\ ~HandleOpen(LogPath)
  /\ fs' = [fs EXCEPT ![LogPath] = [exists |-> TRUE, gen |-> @.gen + 1, len |-> 0]]
  /\ scen' = ScenInterfere
  /\ UNCHANGED <<filePath, fileOffset, busy, consecutiveSkips, disposed, timer,
                 debounceTimer, watcher, passes>>
  /\ UNCHANGED <<lastEnd, handed, otherThanPoller>>

NextPoller ==
  \/ Start
  \/ Stop
  \/ Dispose
  \/ \E np \in Paths : Reconfigure(TRUE, np, FALSE)
  \/ \E hi \in BOOLEAN : Reconfigure(FALSE, NoPath, hi)
  \/ TimerTick
  \/ WatcherChange
  \/ DebounceFire
  \/ \E p \in InFlight : StatResume(p)
  \/ \E p \in InFlight : OpenResume(p)
  \/ \E p \in InFlight : ReadFinish(p)
  \/ \E p \in InFlight : ReadFail(p)
  \/ WriterAppend
  \/ \E m \in 0..MaxFileLen : WriterTruncateWrite(m)
  \/ WriterDelete
  \/ WriterCreate

(***************************************************************************)
(* Text.  A string is the sequence of its UTF-16 code units, a buffer the  *)
(* sequence of its bytes.  The alphabet of the model is the code points    *)
(* below 2048 (one or two bytes in UTF-8) and U+FFFD.                      *)
(***************************************************************************)
\* '\n'
NL == 10
\* '"'
QUOTE == 34
\* ':'
COLON == 58
\* '\'
BACKSLASH == 92
\* '{' and '}'
LBRACE == 123
RBRACE == 125
\* U+FFFD, what the decoder puts for bytes that are no UTF-8
REPLACEMENT == 65533

\* What a writer's UTF-8 encoder makes of a string.
RECURSIVE Utf8Encode(_)
Utf8Encode(str) ==
  IF str = <<>> THEN <<>>
  ELSE (IF Head(str) < 128 THEN <<Head(str)>>
        ELSE <<192 + (Head(str) \div 64), 128 + (Head(str) % 64)>>)
       \o Utf8Encode(Tail(str))

IsContinuation(b) == b >= 128 /\ b <= 191

\* filePoller.ts:165, buffer.toString('utf-8'): a byte below 128 is its
\* character, a lead byte of a two-byte sequence followed by a continuation
\* byte is their character, and a byte that fits neither is U+FFFD.
RECURSIVE Utf8Decode(_)
Utf8Decode(bytes) ==
  IF bytes = <<>> THEN <<>>
  ELSE LET b == Head(bytes)
       IN IF b < 128 THEN <<b>> \o Utf8Decode(Tail(bytes))
          ELSE IF /\ b >= 194 /\ b <= 223
                  /\ Len(bytes) >= 2 /\ IsContinuation(bytes[2])
          THEN <<(b - 192) * 64 + (bytes[2] - 128)>>
               \o Utf8Decode(Tail(Tail(bytes)))
          ELSE <<REPLACEMENT>> \o Utf8Decode(Tail(bytes))

\* a < b on strings: by code units, a proper prefix being smaller
RECURSIVE StrLess(_, _)
StrLess(a, b) ==
  IF b = <<>> THEN FALSE
  ELSE IF a = <<>> THEN TRUE
  ELSE IF Head(a) # Head(b) THEN Head(a) < Head(b)
  ELSE StrLess(Tail(a), Tail(b))

\* text.split('\n')
RECURSIVE SplitLines(_)
SplitLines(text) ==
  IF \A i \in 1..Len(text) : text[i] # NL THEN <<text>>
  ELSE LET i == CHOOSE j \in 1..Len(text) :
                  text[j] = NL /\ \A k \in 1..(j - 1) : text[k] # NL
       IN <<SubSeq(text, 1, i - 1)>>
          \o SplitLines(SubSeq(text, i + 1, Len(text)))

(***************************************************************************)
(* JSON.  The log lines of the model are written in a reduced notation of  *)
(* the record {"v":V,"ts":"TS","sessionId":"SID","agents":A}: the text     *)
(*   { V "TS" "SID" A }   without the blanks,                              *)
(* where V is one character for the value of v, TS and SID are the string  *)
(* contents, and A is one character for the value of agents.               *)
(***************************************************************************)
MAX_AGENT_DEPTH == 10

\* The value of a children field: an array, no field (or null), or a value
\* that is neither (a string, a number, an object).
Array(items) == [kind |-> "array", items |-> items]

Absent == [kind |-> "absent", items |-> <<>>]

NotArray == [kind |-> "other", items |-> <<>>]

\* The value of a token field: <<n>> for a value Number() turns into the
\* finite number n, <<>> for any other value (a missing field, a text that
\* is no number, an object).
\* The value of context: <<object>>, or <<>> for a value that is no object.
Context(used, max) == <<[usedTokens |-> used, maxTokens |-> max]>>

\* a raw agent: {agentId, label, status, context: {usedTokens, maxTokens}, children}
RawAgent(id, st, used, max, kids) ==
  [agentId |-> id, label |-> id, status |-> st,
   context |-> Context(<<used>>, <<max>>), children |-> Array(kids)]

\* the ids of the agents of a chain: the agent at depth d is DepthIds[d + 1]
DepthIds == <<"d0", "d1", "d2", "d3", "d4", "d5", "d6", "d7", "d8", "d9",
              "d10", "d11">>

\* a running agent at depth d with one child and so on down to depth last
RECURSIVE Chain(_, _)
Chain(d, last) ==
  RawAgent(DepthIds[d + 1], "running", 50, 100,
           IF d = last THEN <<>> ELSE <<Chain(d + 1, last)>>)

\* The value of v a character stands for: <<number>>, or <<>> for a value
\* that is no number ('n', null).  1 is '1' and 2 is '2'.
VChars == {49, 50, 110}

DecodeV(c) == IF c = 49 THEN <<1>> ELSE IF c = 50 THEN <<2>> ELSE <<>>

\* The value of agents a character stands for: <<array>>, or <<>> for a
\* value that is no array ('x').  '0' is [], 'r' one running agent at 50 of
\* 100 tokens, 'd' the same agent done, 'h' the same agent running at 90 of
\* 100, 'p' a running agent with a done child at 90 of 100, 'b' an array
\* whose agent has an empty agentId, 's' an agent whose children is a string,
\* 'c' an agent without context, 'k' a chain of agents down to depth 11 and
\* 'l' one down to depth 10.
AChars == {48, 114, 100, 104, 112, 98, 120, 115, 99, 107, 108}

DecodeAgents(c) ==
  CASE c = 48 -> << <<>> >>
    [] c = 114 -> << <<RawAgent("a1", "running", 50, 100, <<>>)>> >>
    [] c = 100 -> << <<RawAgent("a1", "done", 50, 100, <<>>)>> >>
    [] c = 104 -> << <<RawAgent("a1", "running", 90, 100, <<>>)>> >>
    [] c = 112 -> << <<RawAgent("a1", "running", 50, 100,
                         <<RawAgent("a2", "done", 90, 100, <<>>)>>)>> >>
    [] c = 98 -> << <<RawAgent("", "running", 50, 100, <<>>)>> >>
    [] c = 115 -> << <<[RawAgent("a1", "running", 50, 100, <<>>)
                          EXCEPT !.children = NotArray]>> >>
    [] c = 99 -> << <<[RawAgent("a1", "running", 50, 100, <<>>)
                         EXCEPT !.context = <<>>]>> >>
    [] c = 107 -> << <<Chain(0, MAX_AGENT_DEPTH + 1)>> >>
    [] c = 108 -> << <<Chain(0, MAX_AGENT_DEPTH)>> >>
    [] OTHER -> <<>>

QuotesOf(line) == {i \in 1..Len(line) : line[i] = QUOTE}

\* the characters a JSON string may hold as they are
IsStringText(str) ==
  \A i \in 1..Len(str) : str[i] >= 32 /\ str[i] # QUOTE /\ str[i] # BACKSLASH

\* JSON.parse(line): <<>> if it throws, else <<[v, ts, sessionId, agents]>>
JsonParse(line) ==
  LET n == Len(line)
      q == QuotesOf(line)
      q2 == CHOOSE i \in q : Cardinality({j \in q : j < i}) = 1
      ts == SubSeq(line, 4, q2 - 1)
      sessionId == SubSeq(line, q2 + 2, n - 3)
  IN IF /\ n >= 7
        /\ line[1] = LBRACE /\ line[n] = RBRACE
        /\ line[2] \in VChars /\ line[n - 1] \in AChars
        /\ Cardinality(q) = 4
        /\ 3 \in q /\ (n - 2) \in q
        /\ (q2 + 1) \in q
        /\ IsStringText(ts) /\ IsStringText(sessionId)
     THEN <<[v |-> DecodeV(line[2]), ts |-> ts, sessionId |-> sessionId,
             agents |-> DecodeAgents(line[n - 1])]>>
     ELSE <<>>

\* the text of the line for the record with these contents
LineText(vChar, ts, sessionId, aChar) ==
  <<LBRACE, vChar, QUOTE>> \o ts \o <<QUOTE, QUOTE>> \o sessionId
    \o <<QUOTE, aChar, RBRACE>>

(***************************************************************************)
(* The agent model (src/unnamed/part_004, lines 1-204).  Token counts are  *)
(* whole numbers and the percentages of the model are whole numbers, so    *)
(* the division is exact.                                                  *)
(***************************************************************************)
DEFAULT_THRESHOLDS == [warningPercent |-> 70, criticalPercent |-> 85]

computeUsagePercent(used, max) ==
  IF max <= 0 THEN 0 ELSE Min((used * 100) \div max, 100)

computeRiskLevel(usagePercent, thresholds) ==
  IF usagePercent >= thresholds.criticalPercent THEN "critical"
  ELSE IF usagePercent >= thresholds.warningPercent THEN "warning"
  ELSE "normal"

RECURSIVE Concat(_)
Concat(seqs) == IF seqs = <<>> THEN <<>> ELSE Head(seqs) \o Concat(Tail(seqs))

\* the flattening that stops one level earlier
RECURSIVE flattenAgentsShallow(_, _)
flattenAgentsShallow(agents, depth) ==
  IF depth >= MAX_AGENT_DEPTH THEN <<>>
  ELSE Concat([i \in 1..Len(agents) |->
                 <<agents[i]>> \o (IF Len(agents[i].children) > 0
                                   THEN flattenAgentsShallow(agents[i].children,
                                                             depth + 1)
                                   ELSE <<>>)])

RECURSIVE flattenAgents(_, _)
flattenAgents(agents, depth) ==
  IF depth > MAX_AGENT_DEPTH THEN <<>>
  ELSE Concat([i \in 1..Len(agents) |->
                 <<agents[i]>> \o (IF Len(agents[i].children) > 0
                                   THEN flattenAgents(agents[i].children, depth + 1)
                                   ELSE <<>>)])

\* the loop that lets a later agent of equal usage take over
RECURSIVE HottestLast(_, _)
HottestLast(hottest, rest) ==
  IF rest = <<>> THEN hottest
  ELSE HottestLast(IF Head(rest).contextUsage.usagePercent
                        >= hottest.contextUsage.usagePercent
                   THEN Head(rest) ELSE hottest, Tail(rest))

\* the loop of computeSessionSummary: the first agent of greatest usage
RECURSIVE Hottest(_, _)
Hottest(hottest, rest) ==
  IF rest = <<>> THEN hottest
  ELSE Hottest(IF Head(rest).contextUsage.usagePercent
                    > hottest.contextUsage.usagePercent
               THEN Head(rest) ELSE hottest, Tail(rest))

CountRisk(all, level) == Cardinality({i \in 1..Len(all) : all[i].riskLevel = level})

computeSessionSummary(agents) ==
  LET all == flattenAgents(agents, 0)
  IN IF Len(all) = 0
     THEN [hottestAgentId |-> "", hottestAgentLabel |-> "",
           hottestUsagePercent |-> 0, totalAgents |-> 0,
           warningAgentCount |-> 0, criticalAgentCount |-> 0]
     ELSE LET hottest == Hottest(all[1], all)
          IN [hottestAgentId |-> hottest.agentId,
              hottestAgentLabel |-> hottest.label,
              hottestUsagePercent |-> hottest.contextUsage.usagePercent,
              totalAgents |-> Len(all),
              warningAgentCount |-> CountRisk(all, "warning"),
              criticalAgentCount |-> CountRisk(all, "critical")]

sanitizeStatus(value) ==
  IF value \in {"running", "waiting", "done", "error"} THEN value ELSE "running"

toFiniteNumber(value) == IF value = <<>> THEN 0 ELSE value[1]

\* raw.context?.usedTokens and raw.context?.maxTokens
UsedTokensOf(raw) == IF raw.context = <<>> THEN <<>> ELSE raw.context[1].usedTokens

MaxTokensOf(raw) == IF raw.context = <<>> THEN <<>> ELSE raw.context[1].maxTokens

\* createAgent throws a TypeError: (raw.children ?? []).map is no function
\* when children is neither an array nor null nor undefined
RECURSIVE createAgentThrows(_, _)
createAgentThrows(raw, depth) ==
  /\ depth < MAX_AGENT_DEPTH
  /\ \/ raw.children.kind = "other"
     \/ \E i \in 1..Len(raw.children.items) :
          createAgentThrows(raw.children.items[i], depth + 1)

\* the agent without its children
createAgentChildless(raw, ts, thresholds, depth) ==
  LET usedTokens == toFiniteNumber(UsedTokensOf(raw))
      maxTokens == toFiniteNumber(MaxTokensOf(raw))
      usagePercent == computeUsagePercent(usedTokens, maxTokens)
  IN [agentId |-> raw.agentId,
      label |-> raw.label,
      contextUsage |-> [usedTokens |-> usedTokens,
                        maxTokens |-> maxTokens,
                        usagePercent |-> usagePercent],
      children |-> <<>>,
      riskLevel |-> computeRiskLevel(usagePercent, thresholds),
      status |-> sanitizeStatus(raw.status),
      lastActivityAt |-> ts]

\* createAgent where it returns
RECURSIVE createAgent(_, _, _, _)
createAgent(raw, ts, thresholds, depth) ==
  [createAgentChildless(raw, ts, thresholds, depth) EXCEPT
     !.children = IF depth < MAX_AGENT_DEPTH
                  THEN [i \in 1..Len(raw.children.items) |->
                          createAgent(raw.children.items[i], ts, thresholds,
                                      depth + 1)]
                  ELSE <<>>]

\* createSession throws: one of its createAgent calls does
createSessionThrows(entry) ==
  \E i \in 1..Len(entry.agents[1]) : createAgentThrows(entry.agents[1][i], 0)

\* the status that is never derived from the agents
sessionStatusActive(allAgents) == "active"

\* lines 189-193 of createSession: the status of the session
sessionStatus(allAgents) ==
  LET every(st) == \A i \in 1..Len(allAgents) : allAgents[i].status = st
  IN IF every("done") THEN "completed"
     ELSE IF \E i \in 1..Len(allAgents) : allAgents[i].status = "error"
     THEN "error"
     ELSE IF every("waiting") THEN "idle"
     ELSE "active"

createSession(entry, thresholds) ==
  LET agents == [i \in 1..Len(entry.agents[1]) |->
                   createAgent(entry.agents[1][i], entry.ts, thresholds, 0)]
      allAgents == flattenAgents(agents, 0)
  IN [sessionId |-> entry.sessionId,
      startedAt |-> entry.ts,
      lastUpdatedAt |-> entry.ts,
      agents |-> agents,
      sessionSummary |-> computeSessionSummary(agents),
      status |-> sessionStatus(allAgents)]

\* Number of agents in the agents array of an entry.
MaxEntryAgents == 2

\* a raw agent without children and with these token values
Leaf(st, used, max) ==
  [agentId |-> "a1", label |-> "a1", status |-> st,
   context |-> Context(used, max), children |-> Array(<<>>)]

\* The raw agents of the entries: leaves at 50, 75, 90 and 150 of 100
\* tokens, with a negative, zero or missing count, with a zero, negative or
\* missing maximum, without context; a done, a waiting and a failed leaf,
\* one of a status that is none of the four and one of another id at 90 of
\* 100; a parent of two; an agent without a children field and one whose
\* children is a string; the chains down to depth MAX_AGENT_DEPTH and one
\* deeper.
RawShapes ==
  {Leaf("running", <<used>>, <<100>>) : used \in {50, 75, 90, 150, -50, 0}}
    \cup {Leaf("running", <<50>>, <<max>>) : max \in {0, -100}}
    \cup {Leaf("running", <<>>, <<100>>), Leaf("running", <<50>>, <<>>),
          Leaf("done", <<50>>, <<100>>), Leaf("waiting", <<50>>, <<100>>),
          Leaf("error", <<50>>, <<100>>), Leaf("paused", <<50>>, <<100>>),
          [Leaf("running", <<90>>, <<100>>) EXCEPT !.agentId = "b1",
                                                   !.label = "b1"],
          [Leaf("running", <<50>>, <<100>>) EXCEPT !.context = <<>>],
          [Leaf("running", <<50>>, <<100>>) EXCEPT !.children = Absent],
          [Leaf("running", <<50>>, <<100>>) EXCEPT !.children = NotArray],
          RawAgent("a1", "running", 50, 100,
                   <<RawAgent("a2", "done", 75, 100, <<>>),
                     RawAgent("a3", "waiting", 90, 100, <<>>)>>),
          Chain(0, MAX_AGENT_DEPTH), Chain(0, MAX_AGENT_DEPTH + 1)}

RawInputs ==
  UNION {[1..n -> RawShapes] : n \in 0..MaxEntryAgents}

NothingBuilt == [input |-> <<>>, applied |-> FALSE, session |-> <<>>]

InitAgentObs == agentObs = NothingBuilt

\* the raw agents an entry may bring, createSession not yet called
Unbuilt == {[NothingBuilt EXCEPT !.input = agents] : agents \in RawInputs}

\* createSession on the entry with the agents: <<>> if it throws
BuildSession ==
  /\ ~agentObs.applied
  /\ LET entry == [v |-> <<1>>, ts |-> <<57>>, sessionId |-> <<97>>,
                   agents |-> <<agentObs.input>>]
     IN agentObs' = [agentObs EXCEPT
                       !.applied = TRUE,
                       !.session = IF createSessionThrows(entry) THEN <<>>
                                   ELSE <<createSession(entry, DEFAULT_THRESHOLDS)>>]
  /\ UNCHANGED otherThanAgents

NextAgents == BuildSession

(***************************************************************************)
(* JsonlParser (src/unnamed/part_004, lines 206-411).  The operators work  *)
(* on a record w of the parser's fields and of the observations.           *)
(***************************************************************************)
SUPPORTED_VERSION == 1
\* Size of the seen-keys set beyond which its older half is dropped
\* (10000 in the code).
MAX_DEDUP_KEYS == 2
\* Number of sessions beyond which the oldest are evicted (100 in the code).
MAX_SESSIONS == 2
\* Number of malformed lines counted.
MaxMalformed == 1
\* Number of lines the writer appends one by one.
MaxLines == 4

IsWhitespace(c) == c \in {9, 11, 12, 13, 32, 160}

\* line.trim()
RECURSIVE Trim(_)
Trim(str) ==
  IF str = <<>> THEN <<>>
  ELSE IF IsWhitespace(Head(str)) THEN Trim(Tail(str))
  ELSE IF IsWhitespace(str[Len(str)]) THEN Trim(SubSeq(str, 1, Len(str) - 1))
  ELSE str

\* the validation without its depth limit
RECURSIVE isValidAgentShapeAnyDepth(_, _)
isValidAgentShapeAnyDepth(obj, depth) ==
  /\ obj.agentId # ""
  /\ obj.context # <<>>
  /\ obj.children.kind = "array"
       => \A i \in 1..Len(obj.children.items) :
            isValidAgentShapeAnyDepth(obj.children.items[i], depth + 1)

RECURSIVE isValidAgentShape(_, _)
isValidAgentShape(obj, depth) ==
  /\ depth <= MAX_AGENT_DEPTH
  /\ obj.agentId # ""
  /\ obj.context # <<>>
  /\ obj.children.kind = "array"
       => \A i \in 1..Len(obj.children.items) :
            isValidAgentShape(obj.children.items[i], depth + 1)

isValidEntry(record) ==
  /\ record.v # <<>>
  /\ record.sessionId # <<>>
  /\ record.agents # <<>>
  /\ \A i \in 1..Len(record.agents[1]) : isValidAgentShape(record.agents[1][i], 0)

DedupKey(entry) == entry.sessionId \o <<COLON>> \o entry.ts

HasKeyNever(keys, key) == FALSE

\* this.seenKeys.has(dedupKey)
HasKey(keys, key) == \E i \in 1..Len(keys) : keys[i] = key

\* the keys left as they are
KeepAllKeys(keys) == keys

\* lines 314-320: beyond MAX_DEDUP_KEYS keys the first MAX_DEDUP_KEYS / 2
\* (rounded up by the loop) in insertion order are deleted
PruneKeys(keys) ==
  IF Len(keys) > MAX_DEDUP_KEYS
  THEN SubSeq(keys, Min((MAX_DEDUP_KEYS + 1) \div 2, Len(keys)) + 1, Len(keys))
  ELSE keys

\* this.latestTsPerSession.get(id): <<>> for undefined, else <<ts>>
LatestTsOf(latest, id) ==
  IF \E e \in latest : e[1] = id
  THEN <<(CHOOSE e \in latest : e[1] = id)[2]>>
  ELSE <<>>

SetLatestTs(latest, id, ts) == {e \in latest : e[1] # id} \cup {<<id, ts>>}

IsOutOfOrderNever(latestTs, ts) == FALSE

\* line 323: latestTs && entry.ts < latestTs
IsOutOfOrder(latestTs, ts) ==
  latestTs # <<>> /\ latestTs[1] # <<>> /\ StrLess(ts, latestTs[1])

\* this.sessions.get(id): <<>> for undefined, else <<session>>
SessionOf(map, id) ==
  IF \E i \in 1..Len(map) : map[i].sessionId = id
  THEN <<map[CHOOSE i \in 1..Len(map) : map[i].sessionId = id]>>
  ELSE <<>>

\* this.sessions.set(id, session): in place if the key is there, else last
SetSession(map, session) ==
  IF SessionOf(map, session.sessionId) # <<>>
  THEN [i \in 1..Len(map) |->
          IF map[i].sessionId = session.sessionId THEN session ELSE map[i]]
  ELSE Append(map, session)

\* the order of insertion
SortRankAsInserted(map, i) == i - 1

\* the index of entry i in the array evictOldestSessions sorts (the sort is
\* stable; localeCompare orders the timestamps of the model as < does)
SortRank(map, i) ==
  Cardinality({j \in 1..Len(map) :
                 \/ StrLess(map[j].lastUpdatedAt, map[i].lastUpdatedAt)
                 \/ map[j].lastUpdatedAt = map[i].lastUpdatedAt /\ j < i})

\* the ids evictOldestSessions removes
ToRemove(map) ==
  {map[i].sessionId : i \in {j \in 1..Len(map) :
                               SortRank(map, j) < Len(map) - MAX_SESSIONS}}

RECURSIVE KeepSessions(_, _)
KeepSessions(seq, keep) ==
  IF seq = <<>> THEN <<>>
  ELSE (IF Head(seq).sessionId \in keep THEN <<Head(seq)>> ELSE <<>>)
       \o KeepSessions(Tail(seq), keep)

evictOldestSessions(w) ==
  LET gone == ToRemove(w.sessions)
  IN [w EXCEPT
        !.sessions = KeepSessions(w.sessions,
                       {w.sessions[i].sessionId : i \in 1..Len(w.sessions)} \ gone),
        !.latestTsPerSession = {e \in w.latestTsPerSession : e[1] \notin gone}]

\* what is noted of a chunk that brought no line to parseLine
NoLine ==
  [step |-> "none", sessionId |-> <<>>, ts |-> <<>>, replay |-> FALSE,
   held |-> FALSE, recorded |-> <<>>, lastTs |-> <<>>, maxTs |-> <<>>,
   mapsChanged |-> FALSE, sessionChanged |-> FALSE,
   lines |-> 0, deepest |-> -1, oddChildren |-> FALSE, v |-> <<>>]

\* the depth of the deepest agent of a raw tree whose roots are at depth,
\* depth - 1 if there is none
RECURSIVE Deepest(_, _)
Deepest(agents, depth) ==
  IF agents = <<>> THEN depth - 1
  ELSE LET below == {Deepest(agents[i].children.items, depth + 1) :
                       i \in 1..Len(agents)}
       IN CHOOSE d \in below : \A e \in below : e <= d

\* some agent of the raw tree has a children field that is present and is
\* no array
RECURSIVE OddChildren(_)
OddChildren(agents) ==
  \E i \in 1..Len(agents) :
    \/ agents[i].children.kind = "other"
    \/ OddChildren(agents[i].children.items)

\* the timestamp of the entry accepted last for the id: <<>> or <<ts>>
LastAcceptedTs(accepted, id) ==
  IF \E e \in accepted : e.sessionId = id
  THEN <<(CHOOSE e \in accepted : e.sessionId = id).ts>>
  ELSE <<>>

\* what is noted of the line that went from state w to state w2 by the
\* branch step of parseLine
Note(w, w2, entry, step) ==
  [step |-> step, sessionId |-> entry.sessionId, ts |-> entry.ts,
   replay |-> <<entry.sessionId, entry.ts>> \in w.processed,
   held |-> \E i \in 1..Len(w.seenKeys) : w.seenKeys[i] = DedupKey(entry),
   recorded |-> LatestTsOf(w.latestTsPerSession, entry.sessionId),
   lastTs |-> LastAcceptedTs(w.lastAccepted, entry.sessionId),
   maxTs |-> LatestTsOf(w.maxAccepted, entry.sessionId),
   mapsChanged |-> \/ w2.sessions # w.sessions
                   \/ w2.latestTsPerSession # w.latestTsPerSession,
   sessionChanged |-> SessionOf(w2.sessions, entry.sessionId)
                        # SessionOf(w.sessions, entry.sessionId),
   lines |-> 0, deepest |-> -1, oddChildren |-> FALSE, v |-> <<>>]

Noted(w, w2, entry, step) == [w2 EXCEPT !.obs = Note(w, w2, entry, step)]

CarryNothing(built, existing) == built

\* lines 331-334: the session takes the startedAt of the existing one
CarryStartedAt(built, existing) ==
  IF existing # <<>>
  THEN [built EXCEPT !.startedAt = existing[1].startedAt]
  ELSE built

\* lines 322-340, from the ordering check on, the key being in seenKeys
OrderAndStore(w, entry) ==
  IF IsOutOfOrder(LatestTsOf(w.latestTsPerSession, entry.sessionId), entry.ts)
  THEN [w EXCEPT !.obs.step = "outOfOrder"]
  ELSE IF createSessionThrows(entry)
  THEN [w EXCEPT !.obs.step = "threw",
                 !.latestTsPerSession = SetLatestTs(@, entry.sessionId, entry.ts)]
  ELSE LET built == createSession(entry, DEFAULT_THRESHOLDS)
           existing == SessionOf(w.sessions, entry.sessionId)
           session == CarryStartedAt(built, existing)
           stored == [w EXCEPT
                        !.obs.step = "accepted",
                        !.latestTsPerSession = SetLatestTs(@, entry.sessionId, entry.ts),
                        !.sessions = SetSession(@, session),
                        !.lastAccepted = {e \in @ : e.sessionId # entry.sessionId}
                                           \cup {entry},
                        !.maxAccepted =
                           IF /\ LatestTsOf(@, entry.sessionId) # <<>>
                              /\ StrLess(entry.ts, LatestTsOf(@, entry.sessionId)[1])
                           THEN @ ELSE SetLatestTs(@, entry.sessionId, entry.ts)]
       IN IF Len(stored.sessions) > MAX_SESSIONS
          THEN evictOldestSessions(stored) ELSE stored

IsUnsupportedNever(v) == FALSE

\* line 303: entry.v > SUPPORTED_VERSION
IsUnsupported(v) == v > SUPPORTED_VERSION

\* JsonlParser.parseLine; the step "threw" is the call ended by an exception
parseLine(w, line) ==
  LET parsed == JsonParse(line)
      counted == [w EXCEPT !.malformedLineCount = @ + 1, !.obs = NoLine]
      agents == IF parsed = <<>> \/ parsed[1].agents = <<>> THEN <<>>
                ELSE parsed[1].agents[1]
      after ==
        IF parsed = <<>> THEN [counted EXCEPT !.obs.step = "malformed"]
        ELSE IF ~isValidEntry(parsed[1]) THEN [counted EXCEPT !.obs.step = "malformed"]
        ELSE LET entry == parsed[1]
                 met == [w EXCEPT !.processed = @ \cup {<<entry.sessionId, entry.ts>>},
                                  !.seenKeys = PruneKeys(Append(@, DedupKey(entry)))]
                 done == OrderAndStore(met, entry)
             IN IF IsUnsupported(entry.v[1])
                THEN [w EXCEPT !.obs = [NoLine EXCEPT !.step = "unsupported"]]
                ELSE IF HasKey(w.seenKeys, DedupKey(entry))
                THEN Noted(w, w, entry, "duplicate")
                ELSE Noted(w, done, entry, done.obs.step)
  IN [after EXCEPT !.obs.lines = w.obs.lines + 1,
                   !.obs.deepest = Deepest(agents, 0),
                   !.obs.oddChildren = OddChildren(agents),
                   !.obs.v = IF parsed = <<>> THEN <<>> ELSE parsed[1].v]

\* the loop of parseChunk: an exception of parseLine ends it
RECURSIVE ParseLines(_, _)
ParseLines(w, lines) ==
  IF lines = <<>> \/ w.obs.step = "threw" THEN w
  ELSE ParseLines(IF Len(Trim(Head(lines))) = 0 THEN w
                  ELSE parseLine(w, Trim(Head(lines))),
                  Tail(lines))

\* JsonlParser.parseChunk
parseChunk(w, chunk) ==
  LET lines == SplitLines(w.pendingPartialLine \o chunk)
  IN ParseLines([w EXCEPT !.pendingPartialLine = lines[Len(lines)],
                          !.obs = NoLine],
                SubSeq(lines, 1, Len(lines) - 1))

\* the fields after construction and after JsonlParser.reset
FreshParser ==
  [pendingPartialLine |-> <<>>, seenKeys |-> <<>>, latestTsPerSession |-> {},
   sessions |-> <<>>, malformedLineCount |-> 0,
   processed |-> {}, lastAccepted |-> {}, maxAccepted |-> {}, obs |-> NoLine]

\* the loop of JsonlParser.getLatestSession
RECURSIVE LatestOf(_, _)
LatestOf(latest, rest) ==
  IF rest = <<>> THEN latest
  ELSE LatestOf(IF latest = <<>>
                   \/ StrLess(latest[1].lastUpdatedAt, Head(rest).lastUpdatedAt)
                THEN <<Head(rest)>> ELSE latest,
                Tail(rest))

getLatestSession(map) == LatestOf(<<>>, map)

(***************************************************************************)
(* StateStore (src/unnamed/part_001, lines 1-39) and the callbacks the     *)
(* extension registers with the poller (src/unnamed/part_002, lines 72-87).*)
(***************************************************************************)
\* JSON.stringify is one-to-one on summaries: the summary stands for its text
computeHash(session) ==
  <<session.sessionId \o <<COLON>> \o session.lastUpdatedAt \o <<COLON>>,
    session.sessionSummary>>

\* the hash of null, ''
EmptyHash == <<>>

\* StateStore.setState(session), session being <<>> for null
SetState(session) ==
  LET newHash == IF session # <<>> THEN computeHash(session[1]) ELSE EmptyHash
  IN IF newHash = lastStateHash
     THEN /\ UNCHANGED <<lastStateHash, currentState>>
          /\ storeObs' = [handed |-> TRUE, fired |-> FALSE,
                          differs |-> session # currentState]
     ELSE /\ lastStateHash' = newHash
          /\ currentState' = session
          /\ storeObs' = [handed |-> TRUE, fired |-> TRUE,
                          differs |-> session # currentState]

ParserFields ==
  [pendingPartialLine |-> pendingPartialLine, seenKeys |-> seenKeys,
   latestTsPerSession |-> latestTsPerSession, sessions |-> sessions,
   malformedLineCount |-> malformedLineCount, processed |-> processed,
   lastAccepted |-> lastAccepted, maxAccepted |-> maxAccepted, obs |-> lineObs]

SetParser(w) ==
  /\ pendingPartialLine' = w.pendingPartialLine
  /\ seenKeys' = w.seenKeys
  /\ latestTsPerSession' = w.latestTsPerSession
  /\ sessions' = w.sessions
  /\ malformedLineCount' = w.malformedLineCount
  /\ processed' = w.processed
  /\ lastAccepted' = w.lastAccepted
  /\ maxAccepted' = w.maxAccepted
  /\ lineObs' = w.obs

InitParserVars ==
  /\ pendingPartialLine = FreshParser.pendingPartialLine
  /\ seenKeys = FreshParser.seenKeys
  /\ latestTsPerSession = FreshParser.latestTsPerSession
  /\ sessions = FreshParser.sessions
  /\ malformedLineCount = FreshParser.malformedLineCount
  /\ processed = FreshParser.processed
  /\ lastAccepted = FreshParser.lastAccepted
  /\ maxAccepted = FreshParser.maxAccepted
  /\ lineObs = FreshParser.obs

InitStoreVars ==
  /\ currentState = <<>>
  /\ lastStateHash = EmptyHash
  /\ storeObs = [handed |-> FALSE, fired |-> FALSE, differs |-> FALSE]

\* jsonlPoller.onData(chunk => ...); an exception of parseChunk ends the
\* callback and is logged by the poller (filePoller.ts:168-169)
OnData(chunk) ==
  LET w == parseChunk(ParserFields, chunk)
  IN /\ w.malformedLineCount <= MaxMalformed
     /\ SetParser(w)
     /\ IF w.obs.step = "threw"
        THEN UNCHANGED storeVars
        ELSE SetState(getLatestSession(w.sessions))

\* jsonlPoller.onReset(() => ...)
OnReset ==
  /\ SetParser(FreshParser)
  /\ SetState(<<>>)

\* The lines a writer appends, each read by one pass: '9' is 57, "10" is
\* <<49, 48>>, the session ids are "a", "b" and "c", and "d" for a session
\* of one line; the record has v 1 and one running agent, or for session
\* "a" the same agent done, or v 2, or a v that is no number.  Two lines
\* hold a colon (58): session "a:9" at "9" and session "a" at "9:9".
Timestamps == {<<57>>, <<49, 48>>}

SessionIds == {<<97>>, <<98>>, <<99>>}

FedLines ==
  {LineText(49, ts, id, 114) : ts \in Timestamps, id \in SessionIds}
    \cup {LineText(49, ts, <<97>>, 100) : ts \in Timestamps}
    \cup {LineText(49, <<57>>, <<100>>, 114)}
    \cup {LineText(50, <<57>>, <<97>>, 114), LineText(110, <<57>>, <<97>>, 114)}
    \cup {LineText(49, <<57>>, <<97>>, c) : c \in {115, 107}}
    \cup {LineText(49, <<57>>, <<97, COLON, 57>>, 114),
          LineText(49, <<57, COLON, 57>>, <<97>>, 114)}

\* The chunks of two lines a writer appends: a line with a v that is no
\* number, or one whose agent has a string for children, and then a valid
\* line or a line with a v that is no number.
FedChunks ==
  {LineText(110, <<57>>, <<97>>, 114) \o <<NL>>
     \o LineText(49, <<57>>, <<98>>, 114) \o <<NL>>,
   LineText(49, <<57>>, <<97>>, 115) \o <<NL>>
     \o LineText(49, <<57>>, <<98>>, 114) \o <<NL>>,
   LineText(49, <<57>>, <<97>>, 115) \o <<NL>>
     \o LineText(110, <<57>>, <<97>>, 114) \o <<NL>>}

FeedLine ==
  /\ linesFed < MaxLines
  /\ \E line \in FedLines : OnData(line \o <<NL>>)
  /\ linesFed' = linesFed + 1
  /\ UNCHANGED <<logBytes, delivered, pieces, otherThanPipeline>>

FeedChunk ==
  /\ linesFed + 1 < MaxLines
  /\ \E chunk \in FedChunks : OnData(chunk)
  /\ linesFed' = linesFed + 2
  /\ UNCHANGED <<logBytes, delivered, pieces, otherThanPipeline>>

TruncationReset ==
  /\ OnReset
  /\ UNCHANGED <<chunkVars, otherThanPipeline>>

NextParser == FeedLine \/ FeedChunk \/ TruncationReset

\* The log files read in chunks: one or two valid lines, of a session "a"
\* or a session named by U+00E9 (two bytes in UTF-8).
ChunkLines == {LineText(49, ts, id, 114) : ts \in Timestamps, id \in {<<97>>, <<233>>}}

LogFiles ==
  {Utf8Encode(l \o <<NL>>) : l \in ChunkLines}
    \cup {Utf8Encode(l[1] \o <<NL>> \o l[2] \o <<NL>>) : l \in ChunkLines \X ChunkLines}

InitChunkVars ==
  /\ logBytes = <<>>
  /\ delivered = 0
  /\ pieces = 0
  /\ linesFed = 0

\* a pass of the poller reads the next k bytes (filePoller.ts:156-167):
\* chunk = buffer.toString('utf-8'), then onData(chunk)
DeliverChunk ==
  /\ \E k \in 1..(Len(logBytes) - delivered) :
       /\ OnData(Utf8Decode(SubSeq(logBytes, delivered + 1, delivered + k)))
       /\ delivered' = delivered + k
  /\ pieces' = pieces + 1
  /\ UNCHANGED <<logBytes, linesFed, otherThanPipeline>>

NextChunk == DeliverChunk


(***************************************************************************)
(* CopilotSessionReader (src/unnamed/part_005), for one session file of    *)
(* the chat-sessions directory.  The text of the file is a sequence of     *)
(* symbols: the line feed, or a symbol that stands for the JSON text of    *)
(* one record.  A value that may be absent is <<>> or <<value>>.           *)
(* Of a session the model keeps sessionId and modelName (for the identity  *)
(* and model metadata), the usage fields, lastModifiedMs, turnCount and    *)
(* the child calls; of a child call its toolCallId, requestIndex and       *)
(* promptTokensAtTurn.                                                     *)
(***************************************************************************)
CallIds == {"c1", "c2"}

Turns == {0, 1}

Blank == [sym |-> "lf", kind |-> 0, sessionId |-> "", creationDate |-> 0,
          modelName |-> "",
          requests |-> <<>>, turn |-> 0, pt |-> <<>>, ct |-> <<>>,
          details |-> <<>>, calls |-> <<>>]

\* '\n'
LF == Blank

\* {"kind":0,"v":{sessionId, inputState.selectedModel.metadata.name, requests}}
KindA(sid, model, reqs) ==
  [Blank EXCEPT !.sym = "rec", !.kind = 0, !.sessionId = sid,
                !.modelName = model, !.requests = reqs]

\* {"kind":1,"k":["requests",n,"result"],"v":{usage:{promptTokens,
\*   completionTokens, promptTokenDetails}}}
KindB(n, p, c, d) ==
  [Blank EXCEPT !.sym = "rec", !.kind = 1, !.turn = n, !.pt = p, !.ct = c,
                !.details = d]

\* {"kind":2,"k":["requests",n,"response"],"v":[subagent invocations]}
KindC(n, ids) ==
  [Blank EXCEPT !.sym = "rec", !.kind = 2, !.turn = n, !.calls = ids]

\* The records the chat tool writes.  A request of a header snapshot is
\* [usage, response]: result.usage.promptTokens if there, and the toolCallIds
\* of the subagent invocations of its response.
HeaderRecords ==
  { KindA("s1", "m1", <<>>),
    KindA("s2", "m2", <<[usage |-> <<7>>, response |-> <<"c1">>]>>) }

Usages ==
  { [p |-> <<>>, c |-> <<>>, d |-> <<>>],
    [p |-> <<0>>, c |-> <<1>>, d |-> <<>>],
    [p |-> <<5>>, c |-> <<6>>, d |-> <<"Messages">>] }

ResultRecords == { KindB(n, u.p, u.c, u.d) : n \in Turns, u \in Usages }

AppendRecords == { KindC(n, <<c>>) : n \in Turns, c \in CallIds }

\* Lines the reader skips: text that is no JSON, a JSON value that is no
\* object, an object without a kind field, and a record of a kind unknown.
SkippedLines ==
  { [Blank EXCEPT !.sym = "junk"], [Blank EXCEPT !.sym = "value"],
    [Blank EXCEPT !.sym = "nokind"], [Blank EXCEPT !.sym = "rec", !.kind = 3] }

Records == HeaderRecords \cup ResultRecords \cup AppendRecords \cup SkippedLines

\* part_005:228-229: a new FileState
FreshState == [offset |-> 0, pendingPartial |-> <<>>, session |-> <<>>,
               subagentRequestIndex |-> [c \in CallIds |-> <<>>]]

ObsNone == [rec |-> <<>>, before |-> <<>>, applied |-> FALSE,
            lastB |-> <<>>, lastAppliedB |-> <<>>]

InitReaderVars ==
  /\ rdFile = [exists |-> TRUE, bytes |-> <<>>, mtime |-> 0]
  /\ rdWrites = 0
  /\ rdState = <<>>
  /\ rdSessions = <<>>
  /\ rdBtr = 0
  /\ rdObs = ObsNone

\* part_005:10-32
ExtractSubagentCallsFromResponse(responseItems, requestIndex, promptTokensAtTurn) ==
  [i \in 1..Len(responseItems) |->
     [toolCallId |-> responseItems[i], requestIndex |-> requestIndex,
      promptTokensAtTurn |-> promptTokensAtTurn]]

\* the call put at the end of the list, whatever the list holds
MapAppend(calls, call) == Append(calls, call)

\* Map.set(call.toolCallId, call) on the Map whose values, in insertion
\* order, are calls
MapSet(calls, call) ==
  IF \E i \in 1..Len(calls) : calls[i].toolCallId = call.toolCallId
  THEN [i \in 1..Len(calls) |->
          IF calls[i].toolCallId = call.toolCallId THEN call ELSE calls[i]]
  ELSE Append(calls, call)

RECURSIVE MapSetAll(_, _)
MapSetAll(calls, new) ==
  IF new = <<>> THEN calls
  ELSE MapSetAll(MapSet(calls, Head(new)), Tail(new))

\* subagentRequestIndex.set(call.toolCallId, requestIndex) for each new call
IndexSetAll(index, new, requestIndex) ==
  [c \in CallIds |->
     IF \E i \in 1..Len(new) : new[i].toolCallId = c
     THEN <<requestIndex>> ELSE index[c]]

\* part_005:340-364: the child calls and the side index a header seeds
RECURSIVE SeedFromRequests(_, _, _)
SeedFromRequests(requests, reqIdx, acc) ==
  IF reqIdx >= Len(requests) THEN acc
  ELSE LET req == requests[reqIdx + 1]
           promptTokensAtTurn == IF req.usage # <<>> THEN req.usage[1] ELSE 0
           found == ExtractSubagentCallsFromResponse(req.response, reqIdx,
                                                     promptTokensAtTurn)
       IN SeedFromRequests(requests, reqIdx + 1,
            [calls |-> MapSetAll(acc.calls, found),
             index |-> IndexSetAll(acc.index, found, reqIdx)])

\* part_005:369-383: what a header keeps of the session it replaces
KeepNothing(existing) ==
  [latestPromptTokens |-> 0, latestCompletionTokens |-> 0,
   promptTokenDetails |-> <<>>, turnCount |-> 0]

KeptOfExisting(existing) ==
  IF existing = <<>> THEN KeepNothing(existing)
  ELSE [latestPromptTokens |-> existing[1].latestPromptTokens,
        latestCompletionTokens |-> existing[1].latestCompletionTokens,
        promptTokenDetails |-> existing[1].promptTokenDetails,
        turnCount |-> existing[1].turnCount]

\* part_005:313-396.  w = [session, index, sessions]: state.session,
\* state.subagentRequestIndex and this.sessions.get(fileName).
ProcessKind0(w, record, mtimeMs) ==
  LET seeded == SeedFromRequests(record.requests, 0,
                  [calls |-> <<>>, index |-> FreshState.subagentRequestIndex])
      kept == KeptOfExisting(w.session)
      session == [sessionId |-> record.sessionId,
                  creationDate |-> record.creationDate,
                  modelName |-> record.modelName,
                  latestPromptTokens |-> kept.latestPromptTokens,
                  latestCompletionTokens |-> kept.latestCompletionTokens,
                  promptTokenDetails |-> kept.promptTokenDetails,
                  lastModifiedMs |-> mtimeMs,
                  turnCount |-> kept.turnCount,
                  subagentCalls |-> seeded.calls]
  IN [w EXCEPT !.session = <<session>>, !.index = seeded.index,
               !.sessions = <<session>>]

\* part_005:398-429
ProcessKind2(w, record, mtimeMs) ==
  IF w.session = <<>> THEN w
  ELSE LET requestIndex == record.turn
           newCalls == ExtractSubagentCallsFromResponse(record.calls,
                                                        requestIndex, 0)
           session == w.session[1]
           merged == [session EXCEPT
                        !.subagentCalls = MapSetAll(@, newCalls),
                        !.lastModifiedMs = mtimeMs]
       IN IF newCalls = <<>> THEN w
          ELSE [w EXCEPT !.session = <<merged>>,
                         !.index = IndexSetAll(@, newCalls, requestIndex),
                         !.sessions = <<merged>>]

\* part_005:473: if (requestIndex >= 0 && promptTokens > 0)
BackFillNever(requestIndex, promptTokens) == FALSE

BackFillApplies(requestIndex, promptTokens) ==
  requestIndex >= 0 /\ promptTokens > 0

\* part_005:446: typeof usageObj['promptTokens'] === 'number'
\*   ? usageObj['promptTokens'] : state.session.latestPromptTokens
PromptTokensHighWater(record, session) ==
  IF record.pt # <<>> /\ record.pt[1] > session.latestPromptTokens
  THEN record.pt[1] ELSE session.latestPromptTokens

PromptTokensOf(record, session) ==
  IF record.pt # <<>> THEN record.pt[1] ELSE session.latestPromptTokens

\* part_005:431-490
ProcessKind1(w, record, mtimeMs) ==
  IF w.session = <<>> THEN w
  ELSE LET session == w.session[1]
           promptTokens == PromptTokensOf(record, session)
           completionTokens == IF record.ct # <<>> THEN record.ct[1]
                               ELSE session.latestCompletionTokens
           requestIndex == record.turn
           BackFill(call) ==
             IF /\ w.index[call.toolCallId] = <<requestIndex>>
                /\ call.promptTokensAtTurn # promptTokens
             THEN [call EXCEPT !.promptTokensAtTurn = promptTokens]
             ELSE call
           updated == [session EXCEPT
                         !.latestPromptTokens = promptTokens,
                         !.latestCompletionTokens = completionTokens,
                         !.promptTokenDetails = record.details,
                         !.lastModifiedMs = mtimeMs,
                         !.turnCount = @ + 1]
           filled == IF BackFillApplies(requestIndex, promptTokens)
                     THEN [updated EXCEPT !.subagentCalls =
                             [i \in 1..Len(@) |-> BackFill(@[i])]]
                     ELSE updated
       IN [w EXCEPT !.session = <<filled>>, !.sessions = <<filled>>]

\* part_005:287-295, the dispatch on record.kind, and the bookkeeping of what
\* the record met: the session before it and whether a session was there to
\* apply it to.
ProcessRecord(w, record, mtimeMs) ==
  LET w1 == CASE record.kind = 0 -> ProcessKind0(w, record, mtimeMs)
              [] record.kind = 1 -> ProcessKind1(w, record, mtimeMs)
              [] record.kind = 2 -> ProcessKind2(w, record, mtimeMs)
              [] OTHER -> w
      there == w.session # <<>>
  IN [w1 EXCEPT !.obs =
        [rec |-> <<record>>, before |-> w.session,
         applied |-> (record.kind = 0 \/ there),
         lastB |-> IF record.kind = 1 THEN <<record>> ELSE @.lastB,
         lastAppliedB |-> IF record.kind = 1 /\ there THEN <<record>>
                          ELSE @.lastAppliedB]]

\* fullText.split('\n')
RECURSIVE Split(_)
Split(text) ==
  IF \A i \in 1..Len(text) : text[i] # LF THEN <<text>>
  ELSE LET i == CHOOSE j \in 1..Len(text) :
                  text[j] = LF /\ \A k \in 1..(j - 1) : text[k] # LF
       IN <<SubSeq(text, 1, i - 1)>> \o Split(SubSeq(text, i + 1, Len(text)))

\* part_005:276-301.  JSON.parse gives the record of a line that is the text
\* of one record and throws on any other text; an empty line, a value that
\* is no object and an object without a kind field are skipped.
IsAnyLine(line) == Len(line) = 1

\* part_005:282-285: the line parses to an object with a kind field
IsRecordLine(line) == Len(line) = 1 /\ line[1].sym = "rec"

RECURSIVE ProcessLines(_, _, _)
ProcessLines(w, lines, mtimeMs) ==
  IF lines = <<>> THEN w
  ELSE ProcessLines(IF IsRecordLine(Head(lines))
                    THEN ProcessRecord(w, Head(lines)[1], mtimeMs)
                    ELSE w,
                    Tail(lines), mtimeMs)

\* part_005:225-311, readFile on the file as stat and read find it.  Gives
\* the FileState, this.sessions.get(fileName), the size of the buffer, the
\* bookkeeping afterwards and the value returned: a processKind call returns
\* true only with state.session set, so the read path returns true exactly
\* when a session is there at its end.
ReadFile(state0, sessions0, obs0, file) ==
  LET st0 == IF state0 = <<>> THEN FreshState ELSE state0[1]
      size == Len(file.bytes)
      truncated == size < st0.offset
      st == IF truncated
            THEN [st0 EXCEPT !.offset = 0, !.pendingPartial = <<>>,
                             !.session = <<>>]
            ELSE st0
      obs == IF truncated THEN ObsNone ELSE obs0
      Touch(session) == IF session = <<>> THEN <<>>
                        ELSE <<[session[1] EXCEPT !.lastModifiedMs = file.mtime]>>
  IN IF size = st.offset
     THEN [state |-> [st EXCEPT !.session = Touch(@)],
           sessions |-> IF st.session = <<>> THEN sessions0
                        ELSE Touch(st.session),
           btr |-> 0, obs |-> obs,
           changed |-> st.session # <<>>
                         /\ st.session[1].lastModifiedMs # file.mtime]
     ELSE LET available == size - st.offset
              bytesToRead == Min(available, READER_MAX_CHUNK_BYTES)
              chunk == SubSeq(file.bytes, st.offset + 1, st.offset + bytesToRead)
              lines == Split(st.pendingPartial \o chunk)
              w == ProcessLines([session |-> st.session,
                                 index |-> st.subagentRequestIndex,
                                 sessions |-> sessions0, obs |-> obs],
                                SubSeq(lines, 1, Len(lines) - 1), file.mtime)
          IN [state |-> [offset |-> st.offset + bytesToRead,
                         pendingPartial |-> lines[Len(lines)],
                         session |-> Touch(w.session),
                         subagentRequestIndex |-> w.index],
              sessions |-> IF w.session = <<>> THEN w.sessions
                           ELSE Touch(w.session),
              btr |-> bytesToRead, obs |-> w.obs,
              changed |-> w.session # <<>>]

\* part_005:160-223, one poll pass over the directory: the file state of a
\* file that is gone is dropped, a file that is there is read.
RdPoll ==
  /\ IF rdFile.exists
     THEN LET r == ReadFile(rdState, rdSessions, rdObs, rdFile)
          IN /\ rdState' = <<r.state>>
             /\ rdSessions' = r.sessions
             /\ rdBtr' = r.btr
             /\ rdObs' = r.obs
     ELSE /\ rdState' = <<>>
          /\ rdSessions' = <<>>
          /\ rdBtr' = 0
          /\ rdObs' = ObsNone
  /\ UNCHANGED <<rdFile, rdWrites>>
  /\ UNCHANGED otherThanReader

(***************************************************************************)
(* The chat tool, writer of the session file.                              *)
(***************************************************************************)
RdWriterAppend(record) ==
  /\ rdWrites < MaxWrites
  /\ rdWrites' = rdWrites + 1
  /\ rdFile' = [exists |-> TRUE, bytes |-> rdFile.bytes \o <<record, LF>>,
                mtime |-> rdFile.mtime + 1]
  /\ UNCHANGED <<rdState, rdSessions, rdBtr, rdObs>>
  /\ UNCHANGED otherThanReader

RdWriterTruncate ==
  /\ rdFile.exists
  /\ rdFile.bytes # <<>>
  /\ rdFile' = [rdFile EXCEPT !.bytes = <<>>, !.mtime = @ + 1]
  /\ UNCHANGED <<rdWrites, rdState, rdSessions, rdBtr, rdObs>>
  /\ UNCHANGED otherThanReader

RdWriterDelete ==
  /\ rdFile.exists
  /\ rdFile.bytes # <<>>
  /\ rdFile' = [exists |-> FALSE, bytes |-> <<>>, mtime |-> rdFile.mtime + 1]
  /\ UNCHANGED <<rdWrites, rdState, rdSessions, rdBtr, rdObs>>
  /\ UNCHANGED otherThanReader

NextReader ==
  \/ RdPoll
  \/ \E record \in Records : RdWriterAppend(record)
  \/ RdWriterTruncate
  \/ RdWriterDelete

(***************************************************************************)
(* CopilotSessionReader over the files of the chat-sessions directory.     *)
(* dir.files gives each name <<>> or <<file>>, dir.fileStates gives each   *)
(* name <<>> or <<FileState>> (this.fileStates), dir.sessions is           *)
(* this.sessions in insertion order, as [fileName, session] entries.       *)
(***************************************************************************)
\* MAX_SESSIONS of part_005:8 (50 there)
READER_MAX_SESSIONS == 1

\* the *.jsonl names, in the order readdir lists them: one more than the cap
FileNames == SubSeq(<<"f1", "f2", "f3", "f4">>, 1, READER_MAX_SESSIONS + 1)

NameSet == {FileNames[i] : i \in 1..Len(FileNames)}

KindAt(sid, created) == [KindA(sid, "m1", <<>>) EXCEPT !.creationDate = created]

\* a header and blank lines, one byte more than a pass reads
LongFile ==
  <<KindAt("s1", 1), LF>> \o [i \in 1..(READER_MAX_CHUNK_BYTES - 1) |-> LF]

\* What the chat tool writes into a new file: a header with a creation
\* time, or a child-call record without a header before it.
FileContents ==
  { LongFile, <<KindAt("s1", 2), LF>>, <<KindC(0, <<"c1">>), LF>> }

\* dir.pass is <<>> while this.busy is false, else the pass suspended at an
\* await: the directory entries still to read, the readFile call suspended
\* between stat and read (its file name, the file stat found and its local
\* FileState), anyChanged, this.sessions as the pass found it less what
\* the delete handler removed since, and whether no file has changed since
\* the pass began.
\* dir.events are the names with a delete event the watcher has not
\* delivered, dir.quiet tells that no file changed since the last completed
\* pass began, and dir.called that the last completed pass invoked the
\* sessions-changed callback.
InitDir ==
  dir = [there |-> TRUE,
         files |-> [n \in NameSet |-> <<>>],
         fileStates |-> [n \in NameSet |-> <<>>],
         sessions |-> <<>>,
         over |-> <<>>, removed |-> {},
         pass |-> <<>>, events |-> {}, quiet |-> FALSE, called |-> FALSE]

\* this.sessions.get(fileName): <<>> or <<session>>
DirSessionOf(map, name) ==
  IF \E i \in 1..Len(map) : map[i].fileName = name
  THEN <<map[CHOOSE i \in 1..Len(map) : map[i].fileName = name].session>>
  ELSE <<>>

\* this.sessions.set(fileName, session)
DirSessionSet(map, name, session) ==
  IF DirSessionOf(map, name) # <<>>
  THEN [i \in 1..Len(map) |->
          IF map[i].fileName = name THEN [fileName |-> name, session |-> session]
          ELSE map[i]]
  ELSE Append(map, [fileName |-> name, session |-> session])

\* this.sessions.delete(key) for the keys given
RECURSIVE DirSessionsWithout(_, _)
DirSessionsWithout(map, names) ==
  IF map = <<>> THEN <<>>
  ELSE (IF Head(map).fileName \in names THEN <<>> ELSE <<Head(map)>>)
       \o DirSessionsWithout(Tail(map), names)

\* part_005:205-206: the index of entry i in the array sorted by creationDate
\* (the sort is stable)
CreationRank(map, i) ==
  Cardinality({j \in 1..Len(map) :
                 \/ map[j].session.creationDate < map[i].session.creationDate
                 \/ /\ map[j].session.creationDate = map[i].session.creationDate
                    /\ j < i})

\* part_005:203-213: the cap on this.sessions
EnforceCap(d) ==
  IF Len(d.sessions) > READER_MAX_SESSIONS
  THEN LET toRemove == {d.sessions[i].fileName : i \in
                          {j \in 1..Len(d.sessions) :
                             CreationRank(d.sessions, j)
                               < Len(d.sessions) - READER_MAX_SESSIONS}}
       IN [d EXCEPT !.sessions = DirSessionsWithout(@, toRemove),
                    !.fileStates = [n \in NameSet |->
                                      IF n \in toRemove THEN <<>> ELSE @[n]],
                    !.over = d.sessions, !.removed = toRemove]
  ELSE d

\* part_005:203-222, the end of a pass: the cap, the sessions-changed
\* callback when anyChanged, and busy = false
FinishPass(d) ==
  LET capped == EnforceCap(d)
      anyChanged == d.pass[1].changed \/ Len(d.sessions) > READER_MAX_SESSIONS
  IN [capped EXCEPT !.pass = <<>>, !.quiet = d.pass[1].clean,
                    !.called = anyChanged]

\* part_005:193-201: the loop goes on to the next entry, and the pass ends
\* with the last one
NextEntry(d) ==
  IF d.pass[1].todo = <<>> /\ d.pass[1].reading = <<>> THEN FinishPass(d)
  ELSE d

\* the names readdir lists
DirEntries(d) == SelectSeq(FileNames, LAMBDA n : d.files[n] # <<>>)

\* part_005:160-191, poll up to the first readFile: readdir has resolved
DirPollBegin ==
  /\ dir.pass = <<>>
  /\ dir' =
       IF ~dir.there
       THEN LET any == Len(dir.sessions) > 0
            IN [dir EXCEPT
                  !.sessions = <<>>,
                  !.fileStates = IF any THEN [n \in NameSet |-> <<>>] ELSE @,
                  !.over = <<>>, !.removed = {}, !.quiet = TRUE,
                  !.called = any]
       ELSE LET gone == {n \in NameSet : dir.fileStates[n] # <<>> /\ dir.files[n] = <<>>}
            IN NextEntry([dir EXCEPT
                  !.fileStates = [n \in NameSet |->
                                    IF n \in gone THEN <<>> ELSE @[n]],
                  !.sessions = DirSessionsWithout(@, gone),
                  !.over = <<>>, !.removed = {},
                  !.pass = <<[todo |-> DirEntries(dir), reading |-> <<>>,
                              changed |-> gone # {},
                              before |-> dir.sessions, clean |-> TRUE]>>])
  /\ UNCHANGED otherThanDir

\* part_005:193-201 and 225-254, the readFile call for the next entry: stat
\* has resolved; with nothing new the call returns, else it is suspended
\* again at the open and the read of the bytes stat promised
DirPollStat ==
  /\ dir.pass # <<>>
  /\ dir.pass[1].reading = <<>>
  /\ dir.pass[1].todo # <<>>
  /\ LET n == Head(dir.pass[1].todo)
         on == [dir EXCEPT !.pass[1].todo = Tail(@)]
     IN dir' =
          IF dir.files[n] = <<>> THEN NextEntry(on)
          ELSE LET file == dir.files[n][1]
                   r == ReadFile(dir.fileStates[n], DirSessionOf(dir.sessions, n),
                                 ObsNone, file)
                   st0 == IF dir.fileStates[n] = <<>> THEN FreshState
                          ELSE dir.fileStates[n][1]
                   st == IF Len(file.bytes) < st0.offset
                         THEN [st0 EXCEPT !.offset = 0, !.pendingPartial = <<>>,
                                          !.session = <<>>]
                         ELSE st0
               IN IF r.btr = 0
                  THEN NextEntry([on EXCEPT
                         !.fileStates[n] = <<r.state>>,
                         !.sessions = IF r.sessions = <<>> THEN @
                                      ELSE DirSessionSet(@, n, r.sessions[1]),
                         !.pass[1].changed = @ \/ r.changed])
                  ELSE [on EXCEPT
                         !.fileStates[n] = <<st>>,
                         !.pass[1].reading =
                            <<[name |-> n, file |-> file, state |-> st]>>]
  /\ UNCHANGED otherThanDir

\* part_005:258-311, the suspended readFile call goes on.  The file handle
\* gives the bytes stat saw.  The records are applied through
\* this.fileStates.get(fileName); with the entry deleted meanwhile they are
\* not, and the local FileState still gives its session to this.sessions.
DirPollRead ==
  /\ dir.pass # <<>>
  /\ dir.pass[1].reading # <<>>
  /\ LET rd == dir.pass[1].reading[1]
         n == rd.name
         on == [dir EXCEPT !.pass[1].reading = <<>>]
     IN dir' =
          IF dir.fileStates[n] # <<>>
          THEN LET r == ReadFile(dir.fileStates[n], DirSessionOf(dir.sessions, n),
                                 ObsNone, rd.file)
               IN NextEntry([on EXCEPT
                    !.fileStates[n] = <<r.state>>,
                    !.sessions = IF r.sessions = <<>> THEN @
                                 ELSE DirSessionSet(@, n, r.sessions[1]),
                    !.pass[1].changed = @ \/ r.changed])
          ELSE IF rd.state.session # <<>>
          THEN NextEntry([on EXCEPT
                 !.sessions = DirSessionSet(@, n,
                                [rd.state.session[1] EXCEPT
                                   !.lastModifiedMs = rd.file.mtime]),
                 !.pass[1].changed = TRUE])
          ELSE NextEntry(on)
  /\ UNCHANGED otherThanDir

\* part_005:195-200: fs.promises.open rejects for a file that is gone, and
\* the loop goes on
DirPollOpenFails ==
  /\ dir.pass # <<>>
  /\ dir.pass[1].reading # <<>>
  /\ dir.files[dir.pass[1].reading[1].name] = <<>>
  /\ dir' = NextEntry([dir EXCEPT !.pass[1].reading = <<>>])
  /\ UNCHANGED otherThanDir

\* part_005:107-112, the watcher's onDidDelete handler for a file that is gone
DirOnDidDelete(name) ==
  /\ name \in dir.events
  /\ dir.files[name] = <<>>
  /\ dir' = [dir EXCEPT !.fileStates[name] = <<>>,
                        !.sessions = DirSessionsWithout(@, {name}),
                        !.events = @ \ {name},
                        !.pass = IF @ = <<>> THEN @
                                 ELSE <<[@[1] EXCEPT !.before =
                                           DirSessionsWithout(@, {name})]>>]
  /\ UNCHANGED otherThanDir

\* a file of the directory has changed
Disturbed(d) ==
  [d EXCEPT !.quiet = FALSE,
            !.pass = IF @ = <<>> THEN @ ELSE <<[@[1] EXCEPT !.clean = FALSE]>>]

\* the chat tool starts a session file
DirCreateFile(name, content) ==
  /\ dir.there
  /\ dir.files[name] = <<>>
  /\ dir' = Disturbed([dir EXCEPT !.files[name] =
                          <<[exists |-> TRUE, bytes |-> content, mtime |-> 1]>>])
  /\ UNCHANGED otherThanDir

DirDeleteFile(name) ==
  /\ dir.files[name] # <<>>
  /\ dir' = Disturbed([dir EXCEPT !.files[name] = <<>>,
                                  !.events = @ \cup {name}])
  /\ UNCHANGED otherThanDir

\* the workspace storage directory is removed with its files, or made again
DirRemove ==
  /\ dir.there
  /\ dir' = Disturbed([dir EXCEPT
                          !.there = FALSE, !.files = [n \in NameSet |-> <<>>],
                          !.events = @ \cup {n \in NameSet : dir.files[n] # <<>>}])
  /\ UNCHANGED otherThanDir

DirMake ==
  /\ ~dir.there
  /\ dir' = Disturbed([dir EXCEPT !.there = TRUE])
  /\ UNCHANGED otherThanDir

NextDir ==
  \/ DirPollBegin
  \/ DirPollStat
  \/ DirPollRead
  \/ DirPollOpenFails
  \/ \E name \in NameSet : DirOnDidDelete(name)
  \/ \E name \in NameSet, content \in FileContents : DirCreateFile(name, content)
  \/ \E name \in NameSet : DirDeleteFile(name)
  \/ DirRemove
  \/ DirMake

(***************************************************************************)
(* The critical-threshold notifications (src/unnamed/part_002): the        *)
(* listener the extension registers with the store, and the set of the     *)
(* agents already notified.  notifyOnCritical is on, the thresholds are    *)
(* the defaults, and the agent ids of a session are distinct.              *)
(***************************************************************************)
\* the test that finds no agent notified yet
AlreadyNotifiedNever(notifiedSet, agentId) == FALSE

\* part_002:256: criticalNotifiedAgents.has(agent.agentId)
AlreadyNotified(notifiedSet, agentId) == agentId \in notifiedSet

\* part_002:254-265, the loop over the flattened agents: r holds the set and
\* the agent ids of the warning messages shown so far
RECURSIVE CheckAgents(_, _, _)
CheckAgents(r, all, criticalThresholdPercent) ==
  IF all = <<>> THEN r
  ELSE LET agent == Head(all)
           r1 == IF agent.contextUsage.usagePercent >= criticalThresholdPercent
                 THEN IF ~AlreadyNotified(r.notified, agent.agentId)
                      THEN [notified |-> r.notified \cup {agent.agentId},
                            sent |-> Append(r.sent, agent.agentId)]
                      ELSE r
                 ELSE [r EXCEPT !.notified = @ \ {agent.agentId}]
       IN CheckAgents(r1, Tail(all), criticalThresholdPercent)

checkCriticalThresholds(session, settings, notifiedSet) ==
  LET allAgents == flattenAgents(session.agents, 0)
  IN CheckAgents([notified |-> notifiedSet, sent |-> <<>>], allAgents,
                 settings.criticalPercent)

\* Number of top-level agents of an emitted session.
MaxNotifyAgents == 2

NotifyIds == {"a1", "b1", "a2", "a3"}

\* The agents of the emitted sessions: agent a1 and agent b1 at 50 or at 90
\* of 100 tokens, alone or together, and a1 at 50 with the children a2 at
\* 75 and a3 at 90.
NotifyLeaves ==
  {RawAgent(id, "running", used, 100, <<>>) : id \in {"a1", "b1"}, used \in {50, 90}}

NotifyInputs ==
  {agents \in UNION {[1..n -> NotifyLeaves] : n \in 1..MaxNotifyAgents} :
     \A i, j \in 1..Len(agents) : agents[i].agentId = agents[j].agentId => i = j}
    \cup {<<RawAgent("a1", "running", 50, 100,
                     <<RawAgent("a2", "done", 75, 100, <<>>),
                       RawAgent("a3", "waiting", 90, 100, <<>>)>>)>>}

NeverShown == [id \in NotifyIds |-> "none"]

\* what the emitted sessions showed last of each agent, the session with the
\* agents all being the latest
Showing(shown, all, criticalThresholdPercent) ==
  [id \in NotifyIds |->
     IF \E i \in 1..Len(all) : all[i].agentId = id
     THEN LET i == CHOOSE i \in 1..Len(all) : all[i].agentId = id
          IN IF all[i].contextUsage.usagePercent >= criticalThresholdPercent
             THEN "above" ELSE "below"
     ELSE shown[id]]

InitNotifyVars ==
  /\ criticalNotifiedAgents = {}
  /\ notifyObs = [shown |-> NeverShown, sinceClear |-> NeverShown,
                  sent |-> <<>>, agents |-> <<>>, calls |-> 0]

\* part_002:72-80 and 141-148: a chunk brings a latest session, the store is
\* handed it and, if its hash is new, calls the listener, which checks the
\* thresholds
EmitSession ==
  \E agents \in NotifyInputs, ts \in Timestamps :
    LET entry == [v |-> <<1>>, ts |-> ts, sessionId |-> <<97>>,
                  agents |-> <<agents>>]
        session == createSession(entry, DEFAULT_THRESHOLDS)
        all == flattenAgents(session.agents, 0)
        r == checkCriticalThresholds(session, DEFAULT_THRESHOLDS,
                                     criticalNotifiedAgents)
        critical == DEFAULT_THRESHOLDS.criticalPercent
    IN /\ SetState(<<session>>)
       /\ IF storeObs'.fired
          THEN /\ criticalNotifiedAgents' = r.notified
               /\ notifyObs' =
                    [shown |-> Showing(notifyObs.shown, all, critical),
                     sinceClear |-> Showing(notifyObs.sinceClear, all, critical),
                     sent |-> r.sent,
                     agents |-> all,
                     calls |-> 1 - notifyObs.calls]
          ELSE UNCHANGED notifyVars
       /\ UNCHANGED parserVars
       /\ UNCHANGED otherThanNotify

\* part_002:82-87, jsonlPoller.onReset: parser.reset(); store.setState(null);
\* criticalNotifiedAgents.clear().  The listener does nothing for null.
ResetNotified ==
  /\ OnReset
  /\ criticalNotifiedAgents' = {}
  /\ notifyObs' = [notifyObs EXCEPT !.sinceClear = NeverShown]
  /\ UNCHANGED otherThanNotify

NextNotify == EmitSession \/ ResetNotified

(***************************************************************************)
(* Properties of FilePoller.                                               *)
(***************************************************************************)
IsPrefix(a, b) == Len(a) <= Len(b) /\ a = SubSeq(b, 1, Len(a))

\* No buffer is larger than the cap: not that of a pass of the FilePoller, not
\* that of a read of the CopilotSessionReader.
BuffersCapped ==
  /\ \A p \in InFlight : p.btr <= MAX_CHUNK_BYTES
  /\ rdBtr <= READER_MAX_CHUNK_BYTES

\* A pass of the FilePoller that completes leaves the offset right behind the
\* bytes it read, so that what lies beyond them is what the next pass reads.
PollerLeavesRestUnread ==
  \A p \in InFlight :
    (p.pc = "read" /\ passes' = Without(passes, p)) =>
      fileOffset' = p.pos + p.btr

\* A read of the CopilotSessionReader leaves the offset right behind the
\* bytes it read, short of the end of the file only if the buffer was full.
ReaderLeavesRestUnread ==
  (rdBtr' > 0 /\ rdState' # rdState) =>
    /\ rdState'[1].offset <= Len(rdFile.bytes)
    /\ rdState'[1].offset < Len(rdFile.bytes) => rdBtr' = READER_MAX_CHUNK_BYTES
    /\ rdState # <<>> /\ rdState[1].offset <= Len(rdFile.bytes)
         => rdState'[1].offset = rdState[1].offset + rdBtr'

\* C1: every poll pass reads, and allocates a buffer of, at most
\* MAX_CHUNK_BYTES bytes whatever the gap between file size and offset, and
\* the bytes beyond the cap are left unread at the new offset for later
\* passes; for FilePoller.poll and for CopilotSessionReader.readFile.
C1_CappedAndRestLeftUnread ==
  /\ []BuffersCapped
  /\ [][PollerLeavesRestUnread /\ ReaderLeavesRestUnread]_vars

\* What the truncation episode must look like: one reset at most, no data
\* before it, only bytes of the rewritten file and in file order, and, once a
\* pass has reported "no change", exactly one reset and the whole new content.
EpisodeAsIfFresh ==
  /\ scen.resets <= 1
  /\ ~scen.early
  /\ IsPrefix(scen.delivered, Content(LogPath))
  /\ scen.quiet => scen.resets = 1 /\ scen.delivered = Content(LogPath)

C3_AtMostOnePassInFlight == BagCardinality(passes) <= 1

(***************************************************************************)
(* Properties of CopilotSessionReader.                                     *)
(***************************************************************************)
HasSession == rdState # <<>> /\ rdState[1].session # <<>>

\* the session getSessions() returns for the file
Returned == rdSessions[1]

LastRecord == rdObs.rec[1]

CallsOf(session) == {session.subagentCalls[i] : i \in 1..Len(session.subagentCalls)}

\* The last record was a Kind C that found a session: the calls it revealed
\* stand at 0, recorded against its turn.
RevealedAtZero ==
  (LastRecord.kind = 2 /\ rdObs.applied) =>
    \A i \in 1..Len(LastRecord.calls) :
      \E call \in CallsOf(Returned) :
        /\ call.toolCallId = LastRecord.calls[i]
        /\ call.requestIndex = LastRecord.turn
        /\ call.promptTokensAtTurn = 0

\* The last record was a Kind B with a prompt-token total that found a
\* session: every call recorded against its turn carries the total.
BackFilled ==
  \A call \in CallsOf(Returned) :
    call.requestIndex = LastRecord.turn =>
      call.promptTokensAtTurn = LastRecord.pt[1]

\* C8 as stated: a child call revealed by a Kind C record for turn N has
\* promptTokensAtTurn 0, and once the Kind B record for turn N has arrived
\* with prompt-token total T, every child call recorded against turn N has
\* promptTokensAtTurn = T in the session getSessions() returns.
C8_BackFillAnyTotal ==
  (HasSession /\ rdObs.rec # <<>>) =>
    /\ RevealedAtZero
    /\ (LastRecord.kind = 1 /\ rdObs.applied /\ LastRecord.pt # <<>>)
         => BackFilled

\* C8 amended: the same, for a Kind B record whose prompt-token total T is
\* positive (a total of 0 leaves the calls of the turn as they are).
C8_BackFillPositiveTotal ==
  (HasSession /\ rdObs.rec # <<>>) =>
    /\ RevealedAtZero
    /\ ( /\ LastRecord.kind = 1 /\ rdObs.applied
         /\ LastRecord.pt # <<>> /\ LastRecord.pt[1] > 0 ) => BackFilled

\* A Kind B with total 5 has just back-filled a call that stood at 0.
C8_Witness ==
  /\ HasSession /\ rdObs.rec # <<>>
  /\ LastRecord.kind = 1 /\ rdObs.applied /\ LastRecord.pt = <<5>>
  /\ \E call \in CallsOf(Returned) :
       /\ call.requestIndex = LastRecord.turn
       /\ call.promptTokensAtTurn = 5
       /\ \E old \in CallsOf(rdObs.before[1]) :
            old.toolCallId = call.toolCallId /\ old.promptTokensAtTurn = 0

\* C9 as stated: the session's current usage fields (latest prompt tokens,
\* latest completion tokens, prompt-token details) are those of the Kind B
\* record that arrived last, whatever the turn indices.
C9_LatestResultWins ==
  (HasSession /\ rdObs.lastB # <<>>) =>
    /\ <<Returned.latestPromptTokens>> = rdObs.lastB[1].pt
    /\ <<Returned.latestCompletionTokens>> = rdObs.lastB[1].ct
    /\ Returned.promptTokenDetails = rdObs.lastB[1].details

\* C9 amended: the usage fields are those of the last Kind B record that
\* found a session to apply to (one that arrives before the header is
\* dropped), a token count that record does not carry staying as it was;
\* with no such record they are 0, 0 and empty.
C9_LatestAppliedResultWins ==
  HasSession =>
    IF rdObs.lastAppliedB = <<>>
    THEN /\ Returned.latestPromptTokens = 0
         /\ Returned.latestCompletionTokens = 0
         /\ Returned.promptTokenDetails = <<>>
         /\ Returned.turnCount = 0
    ELSE LET b == rdObs.lastAppliedB[1]
         IN /\ b.pt # <<>> => Returned.latestPromptTokens = b.pt[1]
            /\ b.ct # <<>> => Returned.latestCompletionTokens = b.ct[1]
            /\ Returned.promptTokenDetails = b.details

\* Two Kind B records were applied, the later for turn 0 with total 0 after
\* one with a higher total, and the session shows the later one.
C9_Witness ==
  /\ HasSession /\ rdObs.lastAppliedB # <<>>
  /\ rdObs.lastAppliedB[1].turn = 0
  /\ rdObs.lastAppliedB[1].pt = <<0>>
  /\ Returned.turnCount >= 2
  /\ rdObs.rec = rdObs.lastAppliedB
  /\ rdObs.before[1].latestPromptTokens = 5
  /\ Returned.latestPromptTokens = 0

HeaderOverSession ==
  HasSession /\ rdObs.rec # <<>> /\ LastRecord.kind = 0 /\ rdObs.before # <<>>

IdentityReplaced ==
  /\ Returned.sessionId = LastRecord.sessionId
  /\ Returned.modelName = LastRecord.modelName

UsageKept ==
  /\ Returned.latestPromptTokens = rdObs.before[1].latestPromptTokens
  /\ Returned.latestCompletionTokens = rdObs.before[1].latestCompletionTokens
  /\ Returned.promptTokenDetails = rdObs.before[1].promptTokenDetails
  /\ Returned.turnCount = rdObs.before[1].turnCount

\* C10 as stated: a Kind A record arriving for a file that already has a
\* session replaces the identity and model metadata and leaves the usage
\* fields unchanged: latest prompt/completion tokens, prompt-token details,
\* turn count, and the usage already recorded for child calls.
C10_HeaderKeepsAllUsage ==
  HeaderOverSession =>
    /\ IdentityReplaced
    /\ UsageKept
    /\ \A old \in CallsOf(rdObs.before[1]) :
         \E call \in CallsOf(Returned) :
           /\ call.toolCallId = old.toolCallId
           /\ call.promptTokensAtTurn = old.promptTokensAtTurn

\* C10 amended: it replaces the identity and model metadata and leaves latest
\* prompt/completion tokens, prompt-token details and turn count unchanged;
\* the child calls are replaced by those the header's own snapshot holds.
C10_HeaderKeepsSessionUsage ==
  HeaderOverSession =>
    /\ IdentityReplaced
    /\ UsageKept
    /\ Returned.subagentCalls =
         SeedFromRequests(LastRecord.requests, 0,
           [calls |-> <<>>, index |-> FreshState.subagentRequestIndex]).calls

C10_Witness ==
  /\ HeaderOverSession
  /\ rdObs.before[1].turnCount > 0
  /\ rdObs.before[1].latestPromptTokens > 0
  /\ rdObs.before[1].modelName # Returned.modelName
  /\ Returned.latestPromptTokens = rdObs.before[1].latestPromptTokens

(***************************************************************************)
(* Claims about JsonlParser and StateStore.                                *)
(***************************************************************************)
\* what one chunk holding the whole file leaves in a fresh parser
WholeFile == parseChunk(FreshParser, Utf8Decode(logBytes))

SplitInTwo == pieces = 2 /\ delivered = Len(logBytes)

\* C4: partial-line safety.  When the bytes of a file of valid lines have
\* been delivered in two consecutive chunks, split at any byte offset and
\* each decoded on its own, the sessions and the malformed-line count are
\* those that one chunk with the whole file leaves; and the buffered
\* trailing segment never holds a line end.
C4_SplitAnywhereSameResult ==
  /\ SplitInTwo => /\ sessions = WholeFile.sessions
                   /\ malformedLineCount = WholeFile.malformedLineCount
  /\ \A i \in 1..Len(pendingPartialLine) : pendingPartialLine[i] # NL

LineSteps == {"duplicate", "outOfOrder", "accepted"}

\* the steps of the lines that passed isValidEntry and the version check
PastValidation == LineSteps \cup {"threw"}

\* C5: deduplication.  A record whose (sessionId, timestamp) pair is that of
\* a record already met since the last reset leaves the sessions map and the
\* latest-timestamp map exactly as they were.
C5_ReplayChangesNothing ==
  (lineObs.step \in LineSteps /\ lineObs.replay) => ~lineObs.mapsChanged

\* C5, amended: a record whose (sessionId, timestamp) pair is that of a
\* record already met since the last reset, and whose dedup key is still in
\* the seen-keys set, leaves the sessions map and the latest-timestamp map
\* exactly as they were.
C5_HeldKeyChangesNothing ==
  (lineObs.step \in LineSteps /\ lineObs.replay /\ lineObs.held)
    => (lineObs.step = "duplicate" /\ ~lineObs.mapsChanged)

C5_Witness ==
  /\ lineObs.step = "duplicate"
  /\ lineObs.replay /\ lineObs.held
  /\ SessionOf(sessions, lineObs.sessionId) # <<>>
  /\ \E e \in lastAccepted :
       e.sessionId = lineObs.sessionId /\ e.ts = lineObs.ts

Older(ts, than) == than # <<>> /\ StrLess(ts, than[1])

StoredIds == {sessions[i].sessionId : i \in 1..Len(sessions)}

C7_FiresExactlyOnDifference ==
  storeObs.handed => (storeObs.fired <=> storeObs.differs)

(***************************************************************************)
(* Claims about the per-file state of CopilotSessionReader.                *)
(***************************************************************************)
\* a poll pass is about to find the file shorter than the recorded offset
TruncationSeen ==
  /\ rdFile.exists
  /\ rdState # <<>>
  /\ Len(rdFile.bytes) < rdState[1].offset

\* what a reader that never saw the file makes of it in one pass
AsFreshFile == ReadFile(<<>>, <<>>, ObsNone, rdFile)

\* C11: when a pass finds the size of the file below the recorded offset,
\* the per-file state (offset, pending partial line, session, side index)
\* and the session returned for the file are afterwards those of a fresh
\* file: nothing reconstructed before the truncation remains.
C11_TruncationResetsAll ==
  [][(TruncationSeen /\ rdFile' = rdFile)
       => /\ rdState' = <<AsFreshFile.state>>
          /\ rdSessions' = AsFreshFile.sessions]_vars

TrackedStates == {n \in NameSet : dir.fileStates[n] # <<>>}

SessionsCapped == Len(dir.sessions) <= READER_MAX_SESSIONS

\* the entries removed by the cap are as many as there were beyond it, and
\* none of them was created after an entry that stayed
OldestRemoved ==
  dir.over # <<>> =>
    /\ Cardinality(dir.removed) = Len(dir.over) - READER_MAX_SESSIONS
    /\ \A i, j \in 1..Len(dir.over) :
         (dir.over[i].fileName \in dir.removed
            /\ dir.over[j].fileName \notin dir.removed)
           => dir.over[i].session.creationDate <= dir.over[j].session.creationDate

\* C12: after every completed poll the number of tracked files, per-file
\* states and sessions alike, is at most the cap, and the files the cap removed
\* are those of the oldest creation time.
C12_TrackedFilesCapped ==
  dir.pass = <<>> =>
    /\ Cardinality(TrackedStates) <= READER_MAX_SESSIONS
    /\ SessionsCapped
    /\ OldestRemoved

\* the file without its skipped lines
RECURSIVE Sift(_)
Sift(bytes) ==
  IF Len(bytes) < 2 THEN bytes
  ELSE (IF bytes[1] \in SkippedLines /\ bytes[2] = LF THEN <<>>
        ELSE SubSeq(bytes, 1, 2))
       \o Sift(SubSeq(bytes, 3, Len(bytes)))

\* the session and the side index a fresh reader gets from the complete
\* lines of the bytes, all in one chunk
OneShot(bytes, mtimeMs) ==
  LET lines == Split(bytes)
      w == ProcessLines([session |-> <<>>,
                         index |-> FreshState.subagentRequestIndex,
                         sessions |-> <<>>, obs |-> ObsNone],
                        SubSeq(lines, 1, Len(lines) - 1), mtimeMs)
  IN [session |-> IF w.session = <<>> THEN <<>>
                  ELSE <<[w.session[1] EXCEPT !.lastModifiedMs = mtimeMs]>>,
      index |-> w.index]

\* the reader has read, chunk by chunk, all of a file that only ever grew
ReadToTheEnd ==
  /\ rdFile.exists
  /\ Len(rdFile.bytes) = 2 * rdWrites
  /\ rdState # <<>>
  /\ rdState[1].offset = Len(rdFile.bytes)

\* C13: a line that is malformed JSON, no object, without a kind field or of
\* an unknown kind is skipped: once the file is read, the session, the side
\* index and the session returned are those of the same file without the
\* skipped lines, whatever chunks the lines came in.
C13_SkippedLinesLeaveNoTrace ==
  ReadToTheEnd =>
    LET without == OneShot(Sift(rdFile.bytes), rdFile.mtime)
    IN /\ rdState[1].session = without.session
       /\ rdState[1].subagentRequestIndex = without.index
       /\ rdSessions = without.session

C13_Witness ==
  /\ ReadToTheEnd
  /\ rdSessions # <<>>
  /\ rdSessions[1].turnCount > 0
  /\ \E i \in 1..Len(rdFile.bytes) :
       /\ rdFile.bytes[i] \in SkippedLines
       /\ \E j \in 1..(i - 1) : rdFile.bytes[j].sym = "rec" /\ rdFile.bytes[j].kind = 0
       /\ \E j \in (i + 1)..Len(rdFile.bytes) :
            rdFile.bytes[j].sym = "rec" /\ rdFile.bytes[j].kind = 1

\* the toolCallIds of the child calls a session holds
IdsOf(session) == {call.toolCallId : call \in CallsOf(session)}

\* the toolCallIds a Kind C record carries
CarriedBy(record) == {record.calls[i] : i \in 1..Len(record.calls)}

\* C32: child calls are merged by toolCallId, not appended: a session holds
\* at most one child call per toolCallId, and after a Kind C record has been
\* applied the call of each identifier it carries is the one of that record
\* (of the descriptive fields the model keeps the turn index), the calls of
\* the other identifiers being those the session held before.
C32_CallsMergedById ==
  (HasSession /\ rdObs.rec # <<>>) =>
    /\ Cardinality(IdsOf(Returned)) = Len(Returned.subagentCalls)
    /\ (LastRecord.kind = 2 /\ rdObs.applied) =>
         LET before == rdObs.before[1]
         IN /\ IdsOf(Returned) = IdsOf(before) \cup CarriedBy(LastRecord)
            /\ \A call \in CallsOf(Returned) :
                 IF call.toolCallId \in CarriedBy(LastRecord)
                 THEN call.requestIndex = LastRecord.turn
                 ELSE call \in CallsOf(before)

\* a Kind C record of turn 1 has replaced the call c1 the session held for
\* turn 0, next to a call c2 that stays
C32_Witness ==
  /\ HasSession /\ rdObs.rec # <<>>
  /\ LastRecord.kind = 2 /\ rdObs.applied
  /\ LastRecord.turn = 1 /\ LastRecord.calls = <<"c1">>
  /\ \E old \in CallsOf(rdObs.before[1]) :
       old.toolCallId = "c1" /\ old.requestIndex = 0
  /\ "c2" \in IdsOf(rdObs.before[1])
  /\ Len(Returned.subagentCalls) = 2

\* C33: once the Kind B record of turn N has arrived with a positive
\* prompt-token total T, every child call recorded against turn N carries
\* promptTokensAtTurn = T, the calls that Kind C records add or supersede
\* afterwards included.
C33_BackFillPersists ==
  ( /\ HasSession /\ rdObs.lastAppliedB # <<>>
    /\ rdObs.lastAppliedB[1].pt # <<>> /\ rdObs.lastAppliedB[1].pt[1] > 0 )
    => \A call \in CallsOf(Returned) :
         call.requestIndex = rdObs.lastAppliedB[1].turn
           => call.promptTokensAtTurn = rdObs.lastAppliedB[1].pt[1]

\* C14: parsing a line of the simple schema never throws: parseChunk
\* returns normally for every line, the line being applied or rejected.
C14_ParseChunkReturns == lineObs.step # "threw"

\* the fields of the parser
RealFields ==
  <<pendingPartialLine, seenKeys, latestTsPerSession, sessions, malformedLineCount>>

RealFieldsOf(w) ==
  <<w.pendingPartialLine, w.seenKeys, w.latestTsPerSession, w.sessions,
    w.malformedLineCount>>

\* the line fails JSON parsing or shape validation
FailsValidation(line) ==
  JsonParse(line) = <<>> \/ ~isValidEntry(JsonParse(line)[1])

\* every line of the chunk handled in turn: a failing line adds one to the
\* counter and nothing else, any other line does what parseLine does to the
\* other fields and leaves the counter
RECURSIVE EachLineInTurn(_, _)
EachLineInTurn(w, lines) ==
  IF lines = <<>> THEN w
  ELSE LET line == Trim(Head(lines))
       IN EachLineInTurn(
            IF Len(line) = 0 THEN w
            ELSE IF FailsValidation(line)
            THEN [w EXCEPT !.malformedLineCount = @ + 1]
            ELSE [parseLine(w, line) EXCEPT
                    !.malformedLineCount = w.malformedLineCount],
            Tail(lines))

InTurn(w, chunk) ==
  LET lines == SplitLines(w.pendingPartialLine \o chunk)
  IN EachLineInTurn([w EXCEPT !.pendingPartialLine = lines[Len(lines)]],
                    SubSeq(lines, 1, Len(lines) - 1))

FedInputs == {line \o <<NL>> : line \in FedLines} \cup FedChunks

\* C15: each line that fails JSON parsing or shape validation adds exactly
\* one to the malformed-line counter and changes nothing else, the lines
\* after it in the chunk are still processed, no other line changes the
\* counter, and the counter decreases on reset() only.
C15_MalformedCountedAndSkipped ==
  [][/\ \A chunk \in FedInputs :
          (linesFed' = linesFed + Len(SplitLines(chunk)) - 1
             /\ RealFields' = RealFieldsOf(parseChunk(ParserFields, chunk)))
            => RealFields' = RealFieldsOf(InTurn(ParserFields, chunk))
     /\ malformedLineCount' < malformedLineCount
          => RealFields' = RealFieldsOf(FreshParser)]_vars

\* C16: a line with an agent nested deeper than MAX_AGENT_DEPTH is rejected
\* as a whole: it creates and updates no session, it adds one to the
\* malformed-line counter, and it is not accepted with its deep agents cut.
C16_DeepLineRejected ==
  [][(linesFed' # linesFed /\ lineObs'.lines = 1
        /\ lineObs'.deepest > MAX_AGENT_DEPTH)
       => /\ lineObs'.step = "malformed"
          /\ sessions' = sessions
          /\ latestTsPerSession' = latestTsPerSession
          /\ malformedLineCount' = malformedLineCount + 1]_vars

C16_Witness ==
  /\ lineObs.lines = 1
  /\ lineObs.deepest = MAX_AGENT_DEPTH + 1
  /\ lineObs.step = "malformed"
  /\ malformedLineCount = 1
  /\ sessions # <<>>

\* C17: shape validation accepts an agent only if its children field is
\* absent or an array of shape-valid agents: a line with an agent whose
\* children field is present and is no array is rejected as malformed.
C17_NonArrayChildrenRejected ==
  (lineObs.lines > 0 /\ lineObs.oddChildren) => lineObs.step = "malformed"

\* every agent of a built tree, parents before children
RECURSIVE Preorder(_)
Preorder(agents) ==
  Concat([i \in 1..Len(agents) |-> <<agents[i]>> \o Preorder(agents[i].children)])

\* the number of agents of a raw tree that are within the depth limit
RECURSIVE RawCount(_, _)
RawCount(agents, depth) ==
  IF agents = <<>> \/ depth > MAX_AGENT_DEPTH THEN 0
  ELSE 1 + RawCount(Head(agents).children.items, depth + 1)
         + RawCount(Tail(agents), depth)

\* createSession was called and returned
Built == agentObs.applied /\ agentObs.session # <<>>

BuiltAgents == agentObs.session[1].agents

\* the input passes the validation of its agents
ValidInput == \A i \in 1..Len(agentObs.input) : isValidAgentShape(agentObs.input[i], 0)

\* C18: for a valid input the agent count of the rebuilt session, as
\* sessionSummary.totalAgents and as the length of flattenAgents, is the
\* number of agents of the input's tree within the depth limit.
C18_AgentCountIsInputCount ==
  (Built /\ ValidInput)
    => /\ agentObs.session[1].sessionSummary.totalAgents
            = RawCount(agentObs.input, 0)
       /\ Len(flattenAgents(BuiltAgents, 0)) = RawCount(agentObs.input, 0)

C18_Witness ==
  /\ Built /\ ValidInput
  /\ Len(agentObs.input) = 2
  /\ agentObs.session[1].sessionSummary.totalAgents = MAX_AGENT_DEPTH + 4

\* the depth of the deepest agent of a built tree, -1 if there is none
RECURSIVE BuiltDepth(_, _)
BuiltDepth(agents, depth) ==
  IF agents = <<>> THEN depth - 1
  ELSE LET below == {BuiltDepth(agents[i].children, depth + 1) :
                       i \in 1..Len(agents)}
       IN CHOOSE d \in below : \A e \in below : e <= d

\* C19: an agent nested deeper than MAX_AGENT_DEPTH is neither in the built
\* tree nor in the flattened output, every agent of the built tree is
\* returned by flattenAgents, and the summary (total, warning, critical,
\* hottest) is computed over exactly these agents.
C19_TreeAndFlatteningAgree ==
  Built =>
    LET all == Preorder(BuiltAgents)
        summary == agentObs.session[1].sessionSummary
    IN /\ BuiltDepth(BuiltAgents, 0) <= MAX_AGENT_DEPTH
       /\ flattenAgents(BuiltAgents, 0) = all
       /\ \A i \in 1..Len(all) :
            all[i].agentId # DepthIds[MAX_AGENT_DEPTH + 2]
       /\ summary.totalAgents = Len(all)
       /\ summary.warningAgentCount
            = Cardinality({i \in 1..Len(all) : all[i].riskLevel = "warning"})
       /\ summary.criticalAgentCount
            = Cardinality({i \in 1..Len(all) : all[i].riskLevel = "critical"})
       /\ all # <<>> =>
            /\ \A i \in 1..Len(all) :
                 all[i].contextUsage.usagePercent <= summary.hottestUsagePercent
            /\ \E i \in 1..Len(all) :
                 /\ all[i].agentId = summary.hottestAgentId
                 /\ all[i].contextUsage.usagePercent = summary.hottestUsagePercent

C19_Witness ==
  /\ Built
  /\ Deepest(agentObs.input, 0) = MAX_AGENT_DEPTH + 1
  /\ BuiltDepth(BuiltAgents, 0) = MAX_AGENT_DEPTH
  /\ agentObs.session[1].sessionSummary.totalAgents = MAX_AGENT_DEPTH + 1

\* C20: for every agent built from any input (any integer or non-numeric
\* usedTokens and maxTokens, negative, zero and missing ones included) the
\* usagePercent is a number from 0 to 100.
C20_UsagePercentInRange ==
  Built =>
    LET all == Preorder(BuiltAgents)
    IN \A i \in 1..Len(all) :
         /\ all[i].contextUsage.usagePercent >= 0
         /\ all[i].contextUsage.usagePercent <= 100

\* the statuses of the agents of the flattened tree
BuiltStatuses ==
  LET all == flattenAgents(BuiltAgents, 0)
  IN {all[i].status : i \in 1..Len(all)}

\* C21: createSession derives the status of the session from the statuses
\* of the flattened agents, none included: error if any agent is error,
\* else completed if all are done, else idle if all are waiting, else active.
C21_StatusByPriority ==
  Built =>
    agentObs.session[1].status
      = (IF "error" \in BuiltStatuses THEN "error"
         ELSE IF BuiltStatuses \subseteq {"done"} THEN "completed"
         ELSE IF BuiltStatuses \subseteq {"waiting"} THEN "idle"
         ELSE "active")

C21_Witness ==
  /\ Built
  /\ BuiltStatuses = {"error", "done"}
  /\ agentObs.session[1].status = "error"

\* the chunk of the step was one line, a valid record of this version
OneRecordOfVersion(v) ==
  /\ linesFed' = linesFed + 1
  /\ lineObs'.lines = 1
  /\ lineObs'.v = <<v>>
  /\ lineObs'.step # "malformed"

\* C22: a record of a version above the supported one is rejected and no
\* part of it is applied: the sessions map, the latest timestamps, the
\* dedup keys and the malformed-line counter stay as they were.
C22_UnsupportedVersionLeavesAll ==
  [][OneRecordOfVersion(SUPPORTED_VERSION + 1)
       => /\ lineObs'.step = "unsupported"
          /\ sessions' = sessions
          /\ latestTsPerSession' = latestTsPerSession
          /\ seenKeys' = seenKeys
          /\ malformedLineCount' = malformedLineCount]_vars

C22_Witness ==
  /\ lineObs.lines = 1
  /\ lineObs.step = "unsupported"
  /\ lineObs.v = <<SUPPORTED_VERSION + 1>>
  /\ sessions # <<>>
  /\ seenKeys # <<>>
  /\ malformedLineCount > 0

\* the ids of the sessions that are in the map before and after the step
StayingIds == {id \in StoredIds : SessionOf(sessions', id) # <<>>}

\* C23: startedAt is sticky.  While a session stays in the map its
\* startedAt is the timestamp of the first record accepted for its id and
\* stays so through every later accepted record, and its lastUpdatedAt is
\* the timestamp of the record accepted last: the accepted record of a
\* session that is in the map keeps startedAt and sets lastUpdatedAt, the
\* one of a session that is not sets both, and no line touches the
\* timestamps of another session that stays.
C23_StartedAtSticky ==
  [][(linesFed' = linesFed + 1 /\ lineObs'.lines = 1)
       => LET id == lineObs'.sessionId
              accepted == lineObs'.step = "accepted"
          IN /\ \A other \in StayingIds :
                  (~accepted \/ other # id)
                    => /\ SessionOf(sessions', other)[1].startedAt
                            = SessionOf(sessions, other)[1].startedAt
                       /\ SessionOf(sessions', other)[1].lastUpdatedAt
                            = SessionOf(sessions, other)[1].lastUpdatedAt
             /\ (accepted /\ SessionOf(sessions', id) # <<>>)
                  => /\ SessionOf(sessions', id)[1].lastUpdatedAt = lineObs'.ts
                     /\ SessionOf(sessions', id)[1].startedAt
                          = IF SessionOf(sessions, id) # <<>>
                            THEN SessionOf(sessions, id)[1].startedAt
                            ELSE lineObs'.ts]_vars

C23_Witness ==
  /\ lineObs.lines = 1
  /\ lineObs.step = "accepted"
  /\ SessionOf(sessions, lineObs.sessionId) # <<>>
  /\ SessionOf(sessions, lineObs.sessionId)[1].lastUpdatedAt = lineObs.ts
  /\ SessionOf(sessions, lineObs.sessionId)[1].startedAt # lineObs.ts
  /\ Len(sessions) = MAX_SESSIONS

\* the lastUpdatedAt of the sessions the step removed from the map: of the
\* ones that were in it and are no longer, and of the one the line inserted
\* if it is not in it after the step
RemovedStamps ==
  {SessionOf(sessions, id)[1].lastUpdatedAt :
     id \in {i \in StoredIds : SessionOf(sessions', i) = <<>>}}
    \cup (IF /\ lineObs'.step = "accepted"
             /\ SessionOf(sessions', lineObs'.sessionId) = <<>>
          THEN {lineObs'.ts} ELSE {})

\* C24: after every line the sessions map holds at most MAX_SESSIONS
\* sessions; a line removes sessions only when its insert exceeds the cap,
\* the sessions removed are then those of the oldest lastUpdatedAt, and
\* every session newer than a removed one is retained.
C24_SessionsCappedOldestEvicted ==
  [][(linesFed' = linesFed + 1 /\ lineObs'.lines = 1)
       => /\ Len(sessions') <= MAX_SESSIONS
          /\ RemovedStamps # {}
               => /\ lineObs'.step = "accepted"
                  /\ Len(sessions') = MAX_SESSIONS
                  /\ Len(sessions) = MAX_SESSIONS
                  /\ \A gone \in RemovedStamps : \A i \in 1..Len(sessions') :
                       ~StrLess(sessions'[i].lastUpdatedAt, gone)]_vars

\* the map is full after an accepted line, a session accepted before is no
\* longer in it, and the session inserted first is not the oldest
C24_Witness ==
  /\ lineObs.lines = 1
  /\ lineObs.step = "accepted"
  /\ Len(sessions) = MAX_SESSIONS
  /\ SessionOf(sessions, lineObs.sessionId) # <<>>
  /\ \E p \in processed :
       /\ SessionOf(sessions, p[1]) = <<>>
       /\ \E e \in lastAccepted : e.sessionId = p[1]
  /\ \E i \in 2..Len(sessions) :
       StrLess(sessions[i].lastUpdatedAt, sessions[1].lastUpdatedAt)

\* the step parsed one line, whose key was added to the seen-keys set
KeyAdded ==
  /\ linesFed' = linesFed + 1
  /\ lineObs'.lines = 1
  /\ lineObs'.step \in {"accepted", "outOfOrder", "threw"}

NewKey == lineObs'.sessionId \o <<COLON>> \o lineObs'.ts

\* the key of the line is the key of a pair met before the line, so that
\* the set holds it if nothing was pruned
KeyMetBefore == \E pair \in processed : pair[1] \o <<COLON>> \o pair[2] = NewKey

\* C25: the seen-keys set never holds more than MAX_DEDUP_KEYS keys after a
\* line; when a new key exceeds the cap, the oldest half of the keys, in
\* the order of insertion, is removed; and pruning makes no record
\* rejected: a record whose key would not be in the set had nothing been
\* pruned, and whose timestamp is not smaller than the one recorded for its
\* session, is neither rejected nor counted as malformed.
C25_SeenKeysCappedOldestHalfPruned ==
  [][(linesFed' = linesFed + 1 /\ lineObs'.lines = 1)
       => /\ Len(seenKeys') <= MAX_DEDUP_KEYS
          /\ KeyAdded =>
               LET all == Append(seenKeys, NewKey)
                   gone == Len(all) - Len(seenKeys')
               IN /\ seenKeys' = SubSeq(all, gone + 1, Len(all))
                  /\ Len(all) <= MAX_DEDUP_KEYS => gone = 0
                  /\ Len(all) > MAX_DEDUP_KEYS
                       => (2 * gone >= MAX_DEDUP_KEYS
                             /\ 2 * gone <= MAX_DEDUP_KEYS + 1)
          /\ (/\ lineObs'.step \in PastValidation
              /\ ~lineObs'.replay
              /\ ~KeyMetBefore
              /\ ~Older(lineObs'.ts, lineObs'.recorded))
               => /\ lineObs'.step \in {"accepted", "threw"}
                  /\ malformedLineCount' = malformedLineCount]_vars

\* a record met for the first time is accepted after keys were pruned
C25_Witness ==
  /\ lineObs.lines = 1
  /\ lineObs.step = "accepted"
  /\ ~lineObs.replay
  /\ Len(seenKeys) <= MAX_DEDUP_KEYS
  /\ Cardinality(processed) > MAX_DEDUP_KEYS + 1
  /\ seenKeys[Len(seenKeys)] = lineObs.sessionId \o <<COLON>> \o lineObs.ts

\* the number of bytes the read of the pass gets from the file
BytesRead(p) == Min(p.btr, Max(0, fs[p.path].len - p.pos))

\* the pass is the one whose read and close resolve in the step
ReadEnds(p) == p.pc = "read" /\ passes' = Without(passes, p)

\* C26: in every pass the offset advances by exactly the number of bytes
\* read from the file, so it never exceeds the size the file has at the
\* read, and every byte handed to the data callback is the byte of the file
\* at the position accounted for, also when the file changes size between
\* the stat and the read.
C26_OffsetAdvancesByBytesRead ==
  [][\A p \in InFlight :
       ReadEnds(p)
         => /\ fileOffset' = fileOffset + BytesRead(p)
            /\ fileOffset' <= fs[p.path].len
            /\ \A i \in 1..p.btr :
                 ReadBuffer(p.path, p.pos, p.btr)[i] = FileByte(p.path, fileOffset + i)]_vars

\* a pass ends in the step by a failure: the file is missing at the stat, or
\* the open, the read or the close is rejected
PassFails ==
  /\ \E p \in InFlight : passes' = Without(passes, p)
  /\ lastEnd' \in {"missing", "error"}

\* a call of poll() made in the state the step leads to starts a pass
NextCallRuns ==
  PollCall(disposed', filePath', busy', consecutiveSkips', passes').passes
    # passes'

\* C27: a failure inside a poll pass ends the pass as the missing signal or
\* as a logged error and nothing else: the step leaves the offset where it
\* was, so the same bytes are read again, no data and no reset reach the
\* callbacks, and busy is released, so that the next timer tick or change
\* notification of a poller that has a path and is not disposed runs a pass.
C27_FailureLeavesOffsetReleasesBusy ==
  [][PassFails
       => /\ fileOffset' = fileOffset
          /\ scen' = scen
          /\ busy' = FALSE
          /\ (~disposed' /\ filePath' # NoPath) => NextCallRuns]_vars

\* a read was rejected with bytes of the file still unread, and the poller
\* stands idle with its timer running
C27_Witness ==
  /\ lastEnd = "error"
  /\ InFlight = {}
  /\ ~busy /\ ~disposed /\ timer
  /\ filePath = LogPath
  /\ fs[LogPath].exists
  /\ fileOffset < fs[LogPath].len

\* part_002:169-179, the "Agent Context: Refresh Now" command in JSONL mode:
\* jsonlPoller.reconfigure({})
refreshCmd == Reconfigure(FALSE, NoPath, FALSE)

\* the JSONL poller is running and stands idle between two interval ticks
IdleBetweenTicks ==
  /\ dataSource = "jsonl"
  /\ ~disposed /\ timer
  /\ filePath # NoPath
  /\ ~busy /\ InFlight = {}

\* C28: in JSONL mode the "Refresh Now" command starts a poll pass at once,
\* without waiting for the next interval tick.
C28_RefreshStartsPass ==
  IdleBetweenTicks => ENABLED (refreshCmd /\ passes' # passes)

\* place k holds the first of the greatest numbers of the list
FirstOfMax(percents, k) ==
  /\ \A j \in 1..Len(percents) : percents[j] <= percents[k]
  /\ \A j \in 1..(k - 1) : percents[j] < percents[k]

\* the places of the agents of the risk level
AtRisk(all, level) == {i \in 1..Len(all) : all[i].riskLevel = level}

\* C30: the summary of a built session names as hottest the agent of the
\* greatest usagePercent in the pre-order list of all agents, the first of
\* them on a tie; totalAgents is the length of the list, warningAgentCount
\* and criticalAgentCount are the numbers of its agents of that risk level,
\* and the two together never exceed totalAgents.
C30_SummaryOfFlattenedAgents ==
  (Built /\ BuiltAgents # <<>>) =>
    LET all == Preorder(BuiltAgents)
        summary == agentObs.session[1].sessionSummary
        percents == [i \in 1..Len(all) |-> all[i].contextUsage.usagePercent]
    IN /\ \E k \in 1..Len(all) :
            /\ FirstOfMax(percents, k)
            /\ summary.hottestAgentId = all[k].agentId
            /\ summary.hottestAgentLabel = all[k].label
            /\ summary.hottestUsagePercent = percents[k]
       /\ summary.totalAgents = Len(all)
       /\ summary.warningAgentCount = Cardinality(AtRisk(all, "warning"))
       /\ summary.criticalAgentCount = Cardinality(AtRisk(all, "critical"))
       /\ summary.warningAgentCount + summary.criticalAgentCount
            <= summary.totalAgents

\* two agents of different ids tie at 90 percent, both critical, and the
\* summary names the first
C30_Witness ==
  /\ Built
  /\ Len(BuiltAgents) = 2
  /\ BuiltAgents[1].agentId = "a1" /\ BuiltAgents[2].agentId = "b1"
  /\ BuiltAgents[1].contextUsage.usagePercent = 90
  /\ BuiltAgents[2].contextUsage.usagePercent = 90
  /\ agentObs.session[1].sessionSummary.hottestAgentId = "a1"
  /\ agentObs.session[1].sessionSummary.criticalAgentCount = 2

\* a call of poll() begins a pass in the step
PassStarts == \E pth \in Paths : passes' = With(passes, NewPass(pth))

\* a call of poll() is skipped and counted in the step
PollSkipped == consecutiveSkips' = consecutiveSkips + 1

\* a call of poll() is made and runs past its first line in the step
PollRequested == PassStarts \/ PollSkipped

\* C31: a poll request that arrives while a pass is in flight is skipped
\* and counted, and only such a request is; the warning is logged on the
\* skips that are the third or a later one in a row and on no others; and a
\* pass that starts puts the count of consecutive skips back to 0.
C31_SkippedWhileInFlight ==
  [][PollRequested
       => /\ PollSkipped <=> InFlight # {}
          /\ PollSkipped
               => /\ passes' = passes
                  /\ PollCall(disposed, filePath, busy, consecutiveSkips,
                              passes).warned
                       <=> consecutiveSkips' >= 3
          /\ PassStarts => consecutiveSkips' = 0]_vars

\* C35: after every parseChunk call the sessions map and the map of the
\* latest timestamp per session have the same keys, and the lastUpdatedAt of
\* every stored session is the timestamp recorded for its sessionId; across
\* accepted, rejected, duplicate and out-of-order lines, evictions and
\* reset().
C35_SessionsAndLatestTsAgree ==
  /\ {e[1] : e \in latestTsPerSession} = StoredIds
  /\ \A i \in 1..Len(sessions) :
       LatestTsOf(latestTsPerSession, sessions[i].sessionId)
         = <<sessions[i].lastUpdatedAt>>

\* C36: when no file of the watched directory is created, deleted or modified
\* between two consecutive completed polls of the multi-kind reader, the
\* second poll does not invoke the sessions-changed callback and leaves the
\* session map as it found it, for any number of files, more than the cap
\* included.
C36_QuietPollChangesNothing ==
  [][(dir.quiet /\ dir.pass # <<>> /\ dir'.pass = <<>>)
       => (~dir'.called /\ dir'.sessions = dir.pass[1].before)]_vars

\* the reader has observed the deletion of the file: the delete event of the
\* watcher has been handled
DeletionObserved(n) == dir.files[n] = <<>> /\ n \notin dir.events

\* C37: whenever no poll pass of the multi-kind reader is in flight, every
\* file name with a session in the session map has a per-file state, and no
\* session remains for a file whose deletion has been observed; also when
\* the delete event was handled while a pass was suspended in the middle of
\* reading that file.
C37_SessionsHaveStates ==
  dir.pass = <<>> =>
    \A n \in NameSet :
      /\ DirSessionOf(dir.sessions, n) # <<>> => dir.fileStates[n] # <<>>
      /\ DeletionObserved(n) => DirSessionOf(dir.sessions, n) = <<>>

\* the pass p hands its chunk to the data callback in this step
Delivers(p) ==
  /\ p.pc = "read"
  /\ passes' = Without(passes, p)
  /\ lastEnd' = "ok"
  /\ fileOffset' = fileOffset + p.btr

\* C38: after reconfigure() has switched the FilePoller to another file
\* path (here from LogPath to OtherPath), every chunk handed to the data
\* callback comes from the new file, and the chunks are the content of the
\* new file from offset 0, in order, no byte skipped or repeated; also when
\* a pass on the old path was in flight at the reconfigure.  The offset is
\* set to 0 by the switch and advanced by the size of every chunk delivered,
\* so it counts the bytes delivered since the switch: each chunk has to be
\* the bytes that the new file holds from there.
C38_ChunksOfNewFileInOrder ==
  [][\A p \in InFlight :
       (filePath = OtherPath /\ Delivers(p))
         => /\ p.path = OtherPath
            /\ p.pos = fileOffset
            /\ p.pos + p.btr <= fs[OtherPath].len]_vars

C34_KeyHeldOnlyForSamePair ==
  (lineObs.step \in PastValidation /\ lineObs.held) => lineObs.replay

(***************************************************************************)
(* Claims about the notifications.                                         *)
(***************************************************************************)
\* the listener has been called with a session in the step
SessionEmitted == notifyObs'.calls # notifyObs.calls

\* the session emitted last shows the agent at or above the critical threshold
ShownCritical(obs, id) ==
  \E i \in 1..Len(obs.agents) :
    /\ obs.agents[i].agentId = id
    /\ obs.agents[i].contextUsage.usagePercent
         >= DEFAULT_THRESHOLDS.criticalPercent

\* the session emitted last made a warning message appear for the agent
Notified(obs, id) == \E i \in 1..Len(obs.sent) : obs.sent[i] = id

\* C29 (as stated): over any sequence of emitted sessions an agent is
\* notified exactly when a session shows it at or above the critical
\* threshold and the emitted session that showed it last, if any, showed it
\* below.
C29_OneShotOverEmissions ==
  [][SessionEmitted
       => \A id \in NotifyIds :
            Notified(notifyObs', id)
              <=> /\ ShownCritical(notifyObs', id)
                  /\ notifyObs.shown[id] # "above"]_vars

\* C29 (amended): an agent is notified exactly when an emitted session
\* shows it at or above the critical threshold and, of the sessions emitted
\* since the set of the notified agents was cleared last (by a truncation
\* reset), the one that showed it last showed it below, or none showed it.
C29_OneShotSinceCleared ==
  [][SessionEmitted
       => \A id \in NotifyIds :
            Notified(notifyObs', id)
              <=> /\ ShownCritical(notifyObs', id)
                  /\ notifyObs.sinceClear[id] # "above"]_vars

\* the session emitted last holds a1 and b1 both at or above the threshold
\* and brought a message for a1 alone, b1 having been notified before
C29_Witness ==
  /\ ShownCritical(notifyObs, "a1") /\ ShownCritical(notifyObs, "b1")
  /\ Notified(notifyObs, "a1") /\ ~Notified(notifyObs, "b1")
  /\ criticalNotifiedAgents = {"a1", "b1"}

(***************************************************************************)
(* Specifications.                                                         *)
(***************************************************************************)
InitPoller ==
  /\ dataSource = "jsonl"
  /\ InitPollerVars
  /\ InitReaderVars
  /\ InitParserVars /\ InitStoreVars /\ InitChunkVars /\ InitDir /\ InitAgentObs
  /\ InitNotifyVars

SpecPoller == InitPoller /\ [][NextPoller]_vars

InitReader ==
  /\ dataSource = "copilot-chat"
  /\ InitPollerVars
  /\ filePath = NoPath
  /\ InitReaderVars
  /\ InitParserVars /\ InitStoreVars /\ InitChunkVars /\ InitDir /\ InitAgentObs
  /\ InitNotifyVars

SpecReader == InitReader /\ [][NextReader]_vars

InitParser ==
  /\ dataSource = "jsonl"
  /\ InitPollerVars
  /\ filePath = LogPath
  /\ InitReaderVars
  /\ InitParserVars /\ InitStoreVars /\ InitChunkVars /\ InitDir /\ InitAgentObs
  /\ InitNotifyVars

SpecParser == InitParser /\ [][NextParser]_vars

InitChunk ==
  /\ dataSource = "jsonl"
  /\ InitPollerVars
  /\ filePath = LogPath
  /\ InitReaderVars
  /\ InitParserVars /\ InitStoreVars /\ InitDir /\ InitAgentObs
  /\ InitNotifyVars
  /\ logBytes \in LogFiles
  /\ delivered = 0
  /\ pieces = 0
  /\ linesFed = 0

SpecChunk == InitChunk /\ [][NextChunk]_vars

InitDirReader ==
  /\ dataSource = "copilot-chat"
  /\ InitPollerVars
  /\ filePath = NoPath
  /\ InitReaderVars
  /\ InitParserVars /\ InitStoreVars /\ InitChunkVars /\ InitDir /\ InitAgentObs
  /\ InitNotifyVars

SpecDir == InitDirReader /\ [][NextDir]_vars

InitAgents ==
  /\ dataSource = "jsonl"
  /\ InitPollerVars
  /\ filePath = LogPath
  /\ InitReaderVars
  /\ InitParserVars /\ InitStoreVars /\ InitChunkVars /\ InitDir
  /\ InitNotifyVars
  /\ agentObs \in Unbuilt

SpecAgents == InitAgents /\ [][NextAgents]_vars

InitNotify ==
  /\ dataSource = "jsonl"
  /\ InitPollerVars
  /\ filePath = LogPath
  /\ InitReaderVars
  /\ InitParserVars /\ InitStoreVars /\ InitChunkVars /\ InitDir /\ InitAgentObs
  /\ InitNotifyVars

SpecNotify == InitNotify /\ [][NextNotify]_vars


\* start() is called once
StartOnce == ~timer /\ Start

\* The poller is started and left alone, the file is there and only grows.
NextCatchUp ==
  \/ StartOnce
  \/ TimerTick
  \/ WatcherChange
  \/ DebounceFire
  \/ \E p \in InFlight : StatResume(p)
  \/ \E p \in InFlight : OpenResume(p)
  \/ \E p \in InFlight : ReadFinish(p)
  \/ \E p \in InFlight : ReadFail(p)
  \/ WriterAppend

InitCatchUp ==
  /\ dataSource = "jsonl"
  /\ InitPollerFields
  /\ filePath = LogPath
  /\ handed = Observed
  /\ InitReaderVars
  /\ InitParserVars /\ InitStoreVars /\ InitChunkVars /\ InitDir /\ InitAgentObs
  /\ InitNotifyVars

\* start() is called; the interval timer set by start() (filePoller.ts:66)
\* goes on firing; the promises a pass awaits are settled; and a read that
\* is attempted again and again is not rejected every time.
FairCatchUp ==
  /\ WF_vars(StartOnce)
  /\ WF_vars(TimerTick)
  /\ WF_vars(\E p \in InFlight : StatResume(p))
  /\ WF_vars(\E p \in InFlight : OpenResume(p))
  /\ SF_vars(\E p \in InFlight : ReadFinish(p))

SpecCatchUp == InitCatchUp /\ [][NextCatchUp]_vars /\ FairCatchUp
====
